---- MODULE Spec2Model ----
(***************************************************************************)
(* A model of brazuca-rd: the Real-Debrid availability cache               *)
(* (RealDebridService.fetchCachedInfoHashes), the playback resolver        *)
(* (RealDebridService.processMagnetToDirectUrl behind GET /resolve), the   *)
(* listing orchestrator (StreamController.handleStreamRequest), the        *)
(* discovery loop of TorrentIndexerProvider.getStreams and the stream      *)
(* context codec of StreamService.                                         *)
(*                                                                         *)
(* Each component has its own specification (SpecCache, SpecResolve,       *)
(* SpecListing, SpecDiscovery, SpecContext) over its own variables; the    *)
(* variables of the other components stay at their initial values.         *)
(* SpecRelevance is discovery with the relevance filter applied to the     *)
(* hits of a parsed request; SpecSelection is the choice of the file to    *)
(* play among the files of a torrent; SpecRoundTrip is the way of an       *)
(* emitted stream's url back through the router; SpecCredential is the     *)
(* reading of the Real-Debrid token from a request; SpecFailure is         *)
(* discovery with the answers of the network as they may come; SpecChunks  *)
(* is the availability cache with lookups of more than one chunk,          *)
(* SpecConcurrent the cache with the lookups of two request handlers and   *)
(* SpecReady a listing request from the provider's candidates to the       *)
(* streams of its output.                                                  *)
(***************************************************************************)
EXTENDS Integers, Sequences, FiniteSets, TLC

VARIABLES
    instantAvailabilityCache, \* RealDebridService.instantAvailabilityCache: hash -> entry
    clock,                    \* Date.now(), in milliseconds
    ticks,                    \* how often the clock has advanced
    lookups,                  \* how many fetchCachedInfoHashes calls have started
    calls,                    \* the fetchCachedInfoHashes calls, by request handler
    playback,                 \* the GET /resolve request being served
    listing,                  \* the listing request being served
    discovery,                \* the getStreams call being served
    codec,                    \* a stream context on its way through the codec
    selection,                \* a selectBestFile call and the file it chose
    roundTrip,                \* an emitted stream's url on its way back through the router
    credential                \* an extractRealDebridToken call and what it returned

cacheVars == <<instantAvailabilityCache, clock, ticks, lookups, calls>>

vars == <<instantAvailabilityCache, clock, ticks, lookups, calls, playback, listing, discovery,
          codec, selection, roundTrip, credential>>

(***************************************************************************)
(* Bounds of the model.                                                    *)
(***************************************************************************)
MaxLookups == 2
MaxTicks == 2
MaxResolves == 2
MaxCandidates == 2
MaxFiles == 2

(***************************************************************************)
(* Generic helpers.                                                        *)
(***************************************************************************)
Range(s) == {s[n] : n \in 1..Len(s)}

Min(a, b) == IF a < b THEN a ELSE b

(***************************************************************************)
(* Strings.  A hash string is modelled by the hash it spells (id) and the  *)
(* letter case it is written in; id 0 is the empty string.                 *)
(***************************************************************************)
Lo(n) == [id |-> n, cs |-> "lower"]
Up(n) == [id |-> n, cs |-> "upper"]
Mx(n) == [id |-> n, cs |-> "mixed"]
EmptyString == Lo(0)

toLowerCase(h) == [h EXCEPT !.cs = "lower"]

toUpperCase(h) == IF h.id = 0 THEN h ELSE [h EXCEPT !.cs = "upper"]

\* A test that takes every value for a truthy one.
AlwaysTruthy(s) == TRUE

\* JavaScript truthiness of a string-or-undefined value; undefined is
\* represented by the empty string, which is falsy as well.
Truthy(s) == s # ""

(***************************************************************************)
(* JSON values of a response payload.  Every value is a record             *)
(* [t, items]: t is the JSON type and items the members of an array or an  *)
(* object, each a record [key, val].                                       *)
(***************************************************************************)
JNull == [t |-> "null", items |-> <<>>]
JNum == [t |-> "num", items |-> <<>>]
JMember(k, v) == [key |-> k, val |-> v]
\* An array of the values s: its members are keyed by their index.
JArr(s) == [t |-> "arr",
            items |-> [n \in 1..Len(s) |-> JMember(IF n = 1 THEN "0" ELSE "n", s[n])]]
JObj(s) == [t |-> "obj", items |-> s]
JUndefined == [t |-> "undefined", items |-> <<>>]

\* record[key] of a JSON value: undefined when the value has no such member.
JGet(value, key) ==
    IF \E n \in 1..Len(value.items) : value.items[n].key = key
    THEN value.items[CHOOSE n \in 1..Len(value.items) : value.items[n].key = key].val
    ELSE JUndefined

RECURSIVE hasCachedNested(_)
hasCachedNested(value) ==
    CASE value.t = "arr" -> Len(value.items) > 0
      [] value.t = "obj" ->
            \E n \in 1..Len(value.items) : hasCachedNested(value.items[n].val)
      [] OTHER -> FALSE

isInstantAvailabilityCached(value) ==
    IF value.t \notin {"obj", "arr"}
    THEN FALSE
    ELSE \E key \in {"rd", "rdp"} : hasCachedNested(JGet(value, key))

(***************************************************************************)
(* A response of the instantAvailability endpoint as                       *)
(* fetchInstantAvailabilityPayload returns it: ok = FALSE is `undefined`   *)
(* (status >= 400, a network error, a body that is not JSON), otherwise    *)
(* entries are the payload's Object.entries, keyed by hash strings.        *)
(***************************************************************************)
NoPayload == [ok |-> FALSE, entries |-> <<>>]
Payload(entries) == [ok |-> TRUE, entries |-> entries]

isPayloadEmpty(payload) == ~payload.ok \/ Len(payload.entries) = 0

collectCachedHashesFromPayload(payload) ==
    {toLowerCase(payload.entries[n].key) :
        n \in {m \in 1..Len(payload.entries) :
                  isInstantAvailabilityCached(payload.entries[m].val)}}

\* What the external service may answer.  The values cover the shapes
\* isInstantAvailabilityCached tells apart; the keys are hashes in either
\* letter case, whether asked for or not.
NotCachedValues == {JNull, JObj(<<JMember("rd", JArr(<<>>))>>), JArr(<<JNum>>)}
CachedValues ==
    {JObj(<<JMember("rd", JArr(<<JObj(<<>>)>>))>>),
     JObj(<<JMember("rd", JArr(<<>>)),
            JMember("rdp", JObj(<<JMember("x", JArr(<<JNum>>))>>))>>)}

ResponsePayloads ==
    {NoPayload, Payload(<<>>)}
    \cup {Payload(<<JMember(k, v)>>) :
            k \in {Up(1), Lo(2), Lo(3)}, v \in NotCachedValues \cup CachedValues}
    \cup {Payload(<<JMember(Up(1), v), JMember(Up(2), w)>>) :
            v \in {JNull, JObj(<<JMember("rd", JArr(<<JObj(<<>>)>>))>>)},
            w \in {JObj(<<JMember("rd", JArr(<<>>))>>),
                   JObj(<<JMember("rd", JArr(<<JObj(<<>>)>>))>>)}}
    \cup {Payload(<<JMember(Lo(3), JObj(<<JMember("rd", JArr(<<JObj(<<>>)>>))>>)),
                    JMember(Lo(2), JNull)>>)}

(***************************************************************************)
(* The availability cache.                                                 *)
(***************************************************************************)
INSTANT_AVAILABILITY_TTL_MS == 300000

chunkSize == 50

\* The test of line 58 without its expiry half: any entry counts.
IsEntry(cache, hash, now) == hash \in DOMAIN cache

\* cacheEntry && cacheEntry.expires > now
IsLiveEntry(cache, hash, now) ==
    hash \in DOMAIN cache /\ cache[hash].expires > now

\* hashes.map(h => h?.toLowerCase()).filter(Boolean)
normalizedHashes(hashes) ==
    LET lowered == [n \in 1..Len(hashes) |-> toLowerCase(hashes[n])]
        NonEmpty(h) == h.id # 0
    IN  SelectSeq(lowered, NonEmpty)

updateAvailabilityCache(cache, hashes, cachedHashes, now) ==
    LET expires == now + INSTANT_AVAILABILITY_TTL_MS
        written == {toLowerCase(h) : h \in Range(hashes)}
    IN  [h \in DOMAIN cache \cup written |->
            IF h \in written
            THEN [cached |-> h \in cachedHashes, expires |-> expires]
            ELSE cache[h]]

\* The request handlers that run lookups.
Calls == {1}

\* The credential of a lookup: absent (undefined), or a token.
Tokens == {"", "RDTOKEN"}

\* The hash lists a lookup is called with.
LookupInputs ==
    {<<>>, <<Lo(1)>>, <<Up(1), Lo(2)>>, <<Lo(2), Mx(1), Lo(2)>>, <<EmptyString, Lo(3)>>}

IdleCall ==
    [pc |-> "idle", hashes |-> <<>>, token |-> "", now |-> 0,
     hashesToFetch |-> <<>>, i |-> 0, k |-> 0, result |-> {},
     requests |-> <<>>, liveAtStart |-> {}, cachedAtStart |-> {}]

\* A slice that starts one element early.
ChunkAtOverlapping(call, i) ==
    SubSeq(call.hashesToFetch, IF i = 0 THEN 1 ELSE i,
           Min(i + chunkSize, Len(call.hashesToFetch)))

\* hashesToFetch.slice(i, i + chunkSize)
ChunkAt(call, i) ==
    SubSeq(call.hashesToFetch, i + 1, Min(i + chunkSize, Len(call.hashesToFetch)))

Chunk(call) == ChunkAt(call, call.i)

\* A request to the instantAvailability endpoint, as the call's log keeps it:
\* the strategy, the chunk it belongs to, the hashes of its URL and, once the
\* response is in, its outcome.
Request(kind, i, hashes) ==
    [kind |-> kind, chunk |-> i, hashes |-> hashes, outcome |-> "pending"]

Outcome(payload) ==
    IF ~payload.ok THEN "failed"
    ELSE IF isPayloadEmpty(payload) THEN "empty" ELSE "nonempty"

\* The call's log with the outcome of its request in flight filled in.
Answered(call, payload) ==
    [call.requests EXCEPT ![Len(call.requests)].outcome = Outcome(payload)]

upperChunk(chunk) == [n \in 1..Len(chunk) |-> toUpperCase(chunk[n])]

\* Line 77: the slash-joined query of the chunk at offset i goes out.
IssueSlashQuery(call, i) ==
    [call EXCEPT !.pc = "awaitSlash", !.i = i, !.k = 0,
                 !.requests = Append(@, Request("slash", i, upperChunk(ChunkAt(call, i))))]

\* Line 83: the comma-joined query of the current chunk goes out.
IssueCommaQuery(call) ==
    [call EXCEPT !.pc = "awaitComma",
                 !.requests = Append(@, Request("comma", call.i, upperChunk(Chunk(call))))]

\* Line 112: the query of the k-th hash of the current chunk goes out.
IssueSingleQuery(call, k) ==
    [call EXCEPT !.pc = "awaitSingle", !.k = k,
                 !.requests = Append(@, Request("single", call.i,
                                                <<toUpperCase(Chunk(call)[k])>>))]

\* The for loop of line 74 moves on: the next chunk's first query, or return.
NextChunkOrReturn(call) ==
    IF call.i + chunkSize < Len(call.hashesToFetch)
    THEN IssueSlashQuery(call, call.i + chunkSize)
    ELSE [call EXCEPT !.pc = "done"]

\* The retry of line 82 left out: a failed first query goes to line 89.
slashNeverRetried(payload) == FALSE

\* Line 82: the slash-joined query is retried comma-joined.
slashNeedsRetry(payload) == ~payload.ok \/ isPayloadEmpty(payload)

\* Line 89: the chunk's payload answers the chunk.
chunkAnswered(payload) == payload.ok /\ ~isPayloadEmpty(payload)

(***************************************************************************)
(* fetchCachedInfoHashes, one action per synchronous section: the code     *)
(* between two awaits runs without interleaving, and a request is in       *)
(* flight between its two sections.                                        *)
(***************************************************************************)

\* Lines 44-80: the cache scan, and the first chunk's first query if any
\* hash has to be fetched.
fetchCachedInfoHashes(c, hashes, token) ==
    /\ calls[c].pc \in {"idle", "done"}
    /\ lookups < MaxLookups
    /\ LET normalized == normalizedHashes(hashes)
           now == clock
           Stale(h) == ~IsLiveEntry(instantAvailabilityCache, h, now)
           live == {h \in Range(normalized) :
                       IsLiveEntry(instantAvailabilityCache, h, now)}
           result == {h \in live : instantAvailabilityCache[h].cached}
           toFetch == IF Truthy(token) THEN SelectSeq(normalized, Stale) ELSE <<>>
           call == [IdleCall EXCEPT !.hashes = hashes, !.token = token, !.now = now,
                                    !.hashesToFetch = toFetch, !.result = result,
                                    !.liveAtStart = live, !.cachedAtStart = result]
       IN  calls' = [calls EXCEPT ![c] =
                        IF Len(hashes) = 0 \/ ~Truthy(token) \/ Len(toFetch) = 0
                        THEN [call EXCEPT !.pc = "done"]
                        ELSE IssueSlashQuery(call, 0)]
    /\ lookups' = lookups + 1
    /\ UNCHANGED <<instantAvailabilityCache, clock, ticks>>

\* Lines 89-96: a non-empty payload answers the whole chunk.
ChunkPayloadArrives(c, call, payload) ==
    LET chunkCached == collectCachedHashesFromPayload(payload)
    IN  /\ instantAvailabilityCache' =
              updateAvailabilityCache(instantAvailabilityCache, Chunk(call),
                                      chunkCached, call.now)
        /\ calls' = [calls EXCEPT ![c] =
              NextChunkOrReturn([call EXCEPT !.result = @ \cup chunkCached])]

\* Lines 89-99: the payload the chunk's queries ended with either answers
\* the chunk or hands it to fetchPerHash, whose first query goes out.
ChunkQueriesDone(c, call, payload) ==
    IF chunkAnswered(payload)
    THEN ChunkPayloadArrives(c, call, payload)
    ELSE /\ calls' = [calls EXCEPT ![c] = IssueSingleQuery(call, 1)]
         /\ UNCHANGED instantAvailabilityCache

\* Lines 77-99: the response to the slash-joined query.
SlashResponse(c, payload) ==
    /\ calls[c].pc = "awaitSlash"
    /\ LET call == [calls[c] EXCEPT !.requests = Answered(calls[c], payload)]
       IN  IF slashNeedsRetry(payload)
           THEN /\ calls' = [calls EXCEPT ![c] = IssueCommaQuery(call)]
                /\ UNCHANGED instantAvailabilityCache
           ELSE ChunkQueriesDone(c, call, payload)
    /\ UNCHANGED <<clock, ticks, lookups>>

\* Lines 83-99: the response to the comma-joined query.
CommaResponse(c, payload) ==
    /\ calls[c].pc = "awaitComma"
    /\ LET call == [calls[c] EXCEPT !.requests = Answered(calls[c], payload)]
       IN  ChunkQueriesDone(c, call, payload)
    /\ UNCHANGED <<clock, ticks, lookups>>

\* fetchPerHash, lines 112-126: the response to a single-hash query.
SingleResponse(c, payload) ==
    /\ calls[c].pc = "awaitSingle"
    /\ LET call == [calls[c] EXCEPT !.requests = Answered(calls[c], payload)]
           hash == Chunk(call)[call.k]
           perHashCached == IF payload.ok /\ ~isPayloadEmpty(payload)
                            THEN collectCachedHashesFromPayload(payload)
                            ELSE {}
           after == [call EXCEPT !.result = @ \cup perHashCached]
       IN  /\ instantAvailabilityCache' =
                 updateAvailabilityCache(instantAvailabilityCache, <<hash>>,
                                         perHashCached, call.now)
           /\ calls' = [calls EXCEPT ![c] =
                 IF call.k < Len(Chunk(call))
                 THEN IssueSingleQuery(after, call.k + 1)
                 ELSE NextChunkOrReturn(after)]
    /\ UNCHANGED <<clock, ticks, lookups>>

\* Time passes: a millisecond, or all but a millisecond of the TTL.
TickSteps == {1, INSTANT_AVAILABILITY_TTL_MS - 1}

Tick(d) ==
    /\ ticks < MaxTicks
    /\ clock' = clock + d
    /\ ticks' = ticks + 1
    /\ UNCHANGED <<instantAvailabilityCache, lookups, calls>>

CacheIdle ==
    /\ instantAvailabilityCache = <<>>
    /\ clock = 0
    /\ ticks = 0
    /\ lookups = 0
    /\ calls = [c \in Calls |-> IdleCall]

CacheStep ==
    \/ \E c \in Calls, hashes \in LookupInputs, token \in Tokens :
          fetchCachedInfoHashes(c, hashes, token)
    \/ \E c \in Calls, payload \in ResponsePayloads : SlashResponse(c, payload)
    \/ \E c \in Calls, payload \in ResponsePayloads : CommaResponse(c, payload)
    \/ \E c \in Calls, payload \in ResponsePayloads : SingleResponse(c, payload)
    \/ \E d \in TickSteps : Tick(d)

(***************************************************************************)
(* Concurrent lookups: two request handlers share the cache, and their     *)
(* synchronous sections interleave at the awaits.                          *)
(***************************************************************************)
Handlers == {1, 2}

ConcurrentInputs == {<<Lo(1)>>, <<Lo(2), Up(1)>>}

ConcurrentPayloads ==
    {NoPayload,
     Payload(<<JMember(Up(1), JNull)>>),
     Payload(<<JMember(Up(1), JObj(<<JMember("rd", JArr(<<JObj(<<>>)>>))>>))>>)}

ConcurrentIdle ==
    /\ instantAvailabilityCache = <<>>
    /\ clock = 0
    /\ ticks = 0
    /\ lookups = 0
    /\ calls = [c \in Handlers |-> IdleCall]

ConcurrentStep ==
    \/ \E c \in Handlers, hashes \in ConcurrentInputs, token \in Tokens :
          fetchCachedInfoHashes(c, hashes, token)
    \/ \E c \in Handlers, payload \in ConcurrentPayloads : SlashResponse(c, payload)
    \/ \E c \in Handlers, payload \in ConcurrentPayloads : CommaResponse(c, payload)
    \/ \E c \in Handlers, payload \in ConcurrentPayloads : SingleResponse(c, payload)
    \/ Tick(1)

(***************************************************************************)
(* Lookups of more hashes than one chunk holds.  The lists are runs of     *)
(* distinct hashes, as the callers pass the keys of a Map; a chunk's       *)
(* queries fail or are answered with one cached hash, and the queries of   *)
(* fetchPerHash all fail.                                                  *)
(***************************************************************************)
\* The hashes 1..n.
HashRun(n) == [k \in 1..n |-> Lo(k)]

\* Lists of one full chunk, of one hash more, and of two chunks and a hash.
LongLookupInputs ==
    {HashRun(chunkSize), HashRun(chunkSize + 1), HashRun(2 * chunkSize + 1)}

ChunkPayloads ==
    {NoPayload, Payload(<<JMember(Up(1), JObj(<<JMember("rd", JArr(<<JObj(<<>>)>>))>>))>>)}

ChunkStep ==
    \/ \E c \in Calls, hashes \in LongLookupInputs, token \in Tokens :
          fetchCachedInfoHashes(c, hashes, token)
    \/ \E c \in Calls, payload \in ChunkPayloads : SlashResponse(c, payload)
    \/ \E c \in Calls, payload \in ChunkPayloads : CommaResponse(c, payload)
    \/ \E c \in Calls : SingleResponse(c, NoPayload)

(***************************************************************************)
(* The playback resolver: GET /resolve/:token/:magnet, which calls         *)
(* StreamController.processMagnetForPlayback, which calls                  *)
(* RealDebridService.processMagnetToDirectUrl.  One action per synchronous *)
(* section; a request to Real-Debrid (or the timer) is pending in between. *)
(* Which file selectBestFile picks only decides the argument of            *)
(* selectFiles and is left out of the trace.                               *)
(***************************************************************************)

\* ConfigService.loadConfig().baseUrl, as the environment sets it.
BaseUrls == {"https://brazuca-rd.vercel.app", "https://addon.example.org"}

\* The :magnet path parameter: missing, a percent-encoded magnet, or a
\* malformed percent sequence.
MagnetParams == {"", "magnet%3A%3Fxt%3Durn%3Abtih%3Aaa", "%E0%A4%A"}

\* decodeURIComponent, on the parameters above; it throws URIError on a
\* malformed sequence.
decodeURIComponentThrows(param) == param = "%E0%A4%A"

\* torrentInfo.status values of Real-Debrid.
TorrentStatuses == {"downloaded", "downloading", "queued"}

\* An external operation in the call's trace: the operation, the method that
\* issued it, and (once answered) its result.
Op(op, by) == [op |-> op, by |-> by, result |-> "pending", status |-> ""]

IdlePlayback ==
    [pc |-> "idle", token |-> "", magnetParam |-> "", baseUrl |-> "",
     trace |-> <<>>, thrown |-> "", returned |-> "",
     reply |-> [status |-> 0, redirect |-> "", error |-> ""], served |-> 0]

Issue(pb, pc, op, by) == [pb EXCEPT !.pc = pc, !.trace = Append(@, Op(op, by))]

\* The trace with the result of its pending operation filled in.
Result(pb, result, status) ==
    [pb EXCEPT !.trace[Len(pb.trace)].result = result,
               !.trace[Len(pb.trace)].status = status]

\* The placeholder as a relative path, without the configured base URL.
createPlaceholderPath(baseUrl) == "/placeholder/downloading.mp4"

createPlaceholderUrl(baseUrl) == baseUrl \o "/placeholder/downloading.mp4"

\* The catch block without its `throw error`: the error is logged only.
processMagnetForPlaybackSwallows(error) == ""

\* processMagnetForPlayback, lines 105-108 of the controller: the error is
\* logged and thrown again.
processMagnetForPlaybackCatch(error) == error

\* routes.ts lines 136-140: the reply to what processMagnetForPlayback
\* returned (thrown = "") or threw.
ResolveReply(thrown, directUrl) ==
    IF thrown = ""
    THEN [status |-> 302, redirect |-> directUrl, error |-> ""]
    ELSE [status |-> 500, redirect |-> "", error |-> "Failed to process magnet link"]

\* An error thrown inside processMagnetToDirectUrl ends the request.
Throw(pb, error) ==
    LET caught == processMagnetForPlaybackCatch(error)
    IN  [pb EXCEPT !.pc = "replied", !.thrown = caught,
                   !.reply = ResolveReply(caught, "")]

\* A URL returned by processMagnetToDirectUrl ends the request.
Return(pb, url) ==
    [pb EXCEPT !.pc = "replied", !.returned = url, !.reply = ResolveReply("", url)]

\* The status test negated.
isNotDownloaded(status) == status # "downloaded"

isDownloaded(status) == status = "downloaded"

\* routes.ts lines 116-135 and part_000 line 263: the request arrives.
ResolveRequest(token, magnetParam, baseUrl) ==
    /\ playback.pc \in {"idle", "replied"}
    /\ playback.served < MaxResolves
    /\ LET pb == [IdlePlayback EXCEPT !.token = token, !.magnetParam = magnetParam,
                                      !.baseUrl = baseUrl,
                                      !.served = playback.served + 1]
       IN  playback' =
             IF ~Truthy(magnetParam)
             THEN [pb EXCEPT !.pc = "replied",
                             !.reply = [status |-> 400, redirect |-> "",
                                        error |-> "Magnet link is required"]]
             ELSE IF ~Truthy(token)
             THEN [pb EXCEPT !.pc = "replied",
                             !.reply = [status |-> 400, redirect |-> "",
                                        error |-> "Real-Debrid token is required"]]
             ELSE IF decodeURIComponentThrows(magnetParam)
             THEN [pb EXCEPT !.pc = "replied", !.thrown = "URIError",
                             !.reply = ResolveReply("URIError", "")]
             ELSE Issue(pb, "awaitAddMagnet", "addMagnet", "processMagnetToDirectUrl")

\* Lines 263-266: the response to addMagnet.
AddMagnetResponse(ok) ==
    /\ playback.pc = "awaitAddMagnet"
    /\ playback' =
         IF ~ok
         THEN Throw(Result(playback, "failed", ""), "Failed to add magnet")
         ELSE Issue(Result(playback, "ok", ""), "awaitInfoFiles",
                    "getTorrentInfo", "processMagnetToDirectUrl")

\* What getTorrentInfo may tell about the files: the request fails, or the
\* job has no files member, no file, or some files.
FilesAnswers == {"failed", "undefined", "none", "some"}

\* Lines 266-278: the response to the first getTorrentInfo.
InfoFilesResponse(files) ==
    /\ playback.pc = "awaitInfoFiles"
    /\ playback' =
         CASE files = "failed" ->
                 Throw(Result(playback, "failed", ""), "Failed to get torrent info")
           [] files \in {"undefined", "none"} ->
                 Throw(Result(playback, "nofiles", ""), "No files found in torrent")
           [] OTHER ->
                 Issue(Result(playback, "ok", ""), "awaitSelect",
                       "selectFiles", "processMagnetToDirectUrl")

\* Lines 278-281: the response to selectFiles.
SelectFilesResponse(ok) ==
    /\ playback.pc = "awaitSelect"
    /\ playback' =
         IF ~ok
         THEN Throw(Result(playback, "failed", ""), "Failed to select files")
         ELSE Issue(Result(playback, "ok", ""), "awaitInfoStatus",
                    "getTorrentInfo", "processMagnetToDirectUrl")

\* getDirectDownloadUrl line 301: the job's links are fetched.
getDirectDownloadUrl(pb) == Issue(pb, "awaitInfoLinks", "getTorrentInfo", "getDirectDownloadUrl")

\* Lines 281-288: the response to the status check.
InfoStatusResponse(ok, status) ==
    /\ playback.pc = "awaitInfoStatus"
    /\ playback' =
         IF ~ok
         THEN Throw(Result(playback, "failed", ""), "Failed to get torrent info")
         ELSE IF isDownloaded(status)
         THEN getDirectDownloadUrl(Result(playback, "ok", status))
         ELSE Issue(Result(playback, "ok", status), "waiting",
                    "setTimeout", "processMagnetToDirectUrl")

\* Lines 288-290: the 5 seconds are over.
WaitElapsed ==
    /\ playback.pc = "waiting"
    /\ playback' = Issue(Result(playback, "ok", ""), "awaitInfoRetry",
                         "getTorrentInfo", "processMagnetToDirectUrl")

\* Lines 290-297: the response to the second status check.
InfoRetryResponse(ok, status) ==
    /\ playback.pc = "awaitInfoRetry"
    /\ playback' =
         IF ~ok
         THEN Throw(Result(playback, "failed", ""), "Failed to get torrent info")
         ELSE IF isDownloaded(status)
         THEN getDirectDownloadUrl(Result(playback, "ok", status))
         ELSE Return(Result(playback, "ok", status),
                     createPlaceholderUrl(playback.baseUrl))

\* What getTorrentInfo may tell about the links: the request fails, or the
\* job has no links member, no link, an empty first link, or a link.
LinksAnswers == {"failed", "undefined", "none", "emptyFirst", "some"}

\* A missing link answered with the placeholder instead of an error.
missingLinkPlaceholder(pb, error) ==
    Return(Result(pb, "nolinks", ""), createPlaceholderUrl(pb.baseUrl))

\* Lines 303-310: throw new Error(...) for links that are missing or empty
\* and for a first link that is falsy.
missingLinkError(pb, error) == Throw(Result(pb, "nolinks", ""), error)

\* getDirectDownloadUrl lines 301-312: the response to its getTorrentInfo.
InfoLinksResponse(links) ==
    /\ playback.pc = "awaitInfoLinks"
    /\ playback' =
         CASE links = "failed" ->
                 Throw(Result(playback, "failed", ""), "Failed to get torrent info")
           [] links \in {"undefined", "none"} ->
                 missingLinkError(playback, "No download links available")
           [] links = "emptyFirst" ->
                 missingLinkError(playback, "Download link is undefined")
           [] OTHER ->
                 Issue(Result(playback, "ok", ""), "awaitUnrestrict",
                       "unrestrictLink", "getDirectDownloadUrl")

\* getDirectDownloadUrl lines 312-313: the response to unrestrictLink.
UnrestrictResponse(ok) ==
    /\ playback.pc = "awaitUnrestrict"
    /\ playback' =
         IF ~ok
         THEN Throw(Result(playback, "failed", ""), "Failed to unrestrict link")
         ELSE Return(Result(playback, "ok", ""), "https://download.real-debrid.com/d/FILE")

PlaybackIdle == playback = IdlePlayback

PlaybackStep ==
    \/ \E token \in Tokens, magnetParam \in MagnetParams, baseUrl \in BaseUrls :
          ResolveRequest(token, magnetParam, baseUrl)
    \/ \E ok \in BOOLEAN : AddMagnetResponse(ok)
    \/ \E files \in FilesAnswers : InfoFilesResponse(files)
    \/ \E ok \in BOOLEAN : SelectFilesResponse(ok)
    \/ \E ok \in BOOLEAN, status \in TorrentStatuses : InfoStatusResponse(ok, status)
    \/ WaitElapsed
    \/ \E ok \in BOOLEAN, status \in TorrentStatuses : InfoRetryResponse(ok, status)
    \/ \E links \in LinksAnswers : InfoLinksResponse(links)
    \/ \E ok \in BOOLEAN : UnrestrictResponse(ok)

(***************************************************************************)
(* The listing orchestrator: StreamController.handleStreamRequest.  One    *)
(* action per synchronous section; the discovery of the sources or the     *)
(* availability lookup is pending in between.  SourceService is not part   *)
(* of the sources at hand: its answer is any list of SourceStream objects, *)
(* or an exception.                                                        *)
(*                                                                         *)
(* A magnet or url string is modelled by its scheme prefix as written and  *)
(* by the hash of its xt=urn:btih: parameter (the empty string if it has   *)
(* none).  Absent stands for undefined and for '', both falsy.             *)
(***************************************************************************)
Uri(scheme, btih) == [scheme |-> scheme, btih |-> btih]

Absent == Uri("", EmptyString)

UriTruthy(s) == s # Absent

\* String.prototype.toLowerCase on a magnet or url string.
uriToLowerCase(s) ==
    [scheme |-> IF s.scheme = "MAGNET:" THEN "magnet:" ELSE s.scheme,
     btih |-> toLowerCase(s.btih)]

\* String.prototype.startsWith, case-sensitive as in JavaScript.
startsWith(s, prefix) == s.scheme = prefix

\* A SourceStream: its magnet, url, infoHash and cached members.  cached is
\* "undefined" until somebody sets it; infoHash is EmptyString if missing.
SourceStream(magnet, url, infoHash, cached) ==
    [magnet |-> magnet, url |-> url, infoHash |-> infoHash, cached |-> cached]

\* The candidates the sources may deliver.
SourceStreams ==
    { SourceStream(Uri("magnet:", Up(1)), Absent, EmptyString, "undefined"),
      SourceStream(Absent, Uri("magnet:", Lo(2)), EmptyString, "undefined"),
      SourceStream(Absent, Absent, Up(2), "undefined"),
      SourceStream(Uri("http:", EmptyString), Absent, EmptyString, "undefined"),
      SourceStream(Absent, Uri("http:", EmptyString), EmptyString, "undefined"),
      SourceStream(Absent, Absent, EmptyString, "undefined"),
      SourceStream(Uri("MAGNET:", Lo(1)), Absent, EmptyString, "undefined"),
      SourceStream(Absent, Uri("MAGNET:", Lo(2)), EmptyString, "undefined"),
      SourceStream(Uri("magnet:", Lo(1)), Uri("http:", EmptyString), Lo(1), "false"),
      SourceStream(Uri("magnet:", Lo(3)), Absent, Lo(3), "true") }

\* The lists of at most n candidates.
RECURSIVE SourceLists(_)
SourceLists(n) ==
    IF n = 0 THEN {<<>>}
    ELSE LET shorter == SourceLists(n - 1)
         IN  shorter \cup {Append(s, c) : s \in {t \in shorter : Len(t) = n - 1},
                                          c \in SourceStreams}

\* Tokens of a listing request or of REALDEBRID_TOKEN: none, one that is too
\* short to be a Real-Debrid token, and a plausible one.
ListingTokens == {"", "rd-short", "RDTOKENRDTOKENRDTOKENRDTOKEN"}

\* The hashes the availability lookup may report.
ReportedHashes == {Lo(1), Lo(2)}

\* StreamService.extractRealDebridToken with query = {} and headers = {}, as
\* handleStreamRequest calls it; undefined is "".
extractRealDebridToken(extraRealdebridToken, extraToken, paramsToken) ==
    LET token == IF Truthy(extraRealdebridToken) THEN extraRealdebridToken
                 ELSE IF Truthy(extraToken) THEN extraToken
                 ELSE paramsToken
    IN  IF Truthy(token) /\ Len(token) > 20 THEN token ELSE ""

\* A variant that takes the magnet member whatever it holds.
extractStreamMagnetUnchecked(stream) ==
    IF UriTruthy(stream.magnet) THEN stream.magnet
    ELSE IF UriTruthy(stream.url) THEN stream.url
    ELSE IF stream.infoHash # EmptyString THEN Uri("magnet:", stream.infoHash)
    ELSE Absent

\* StreamController.extractStreamMagnet; undefined is Absent.
extractStreamMagnet(stream) ==
    IF UriTruthy(stream.magnet) /\ startsWith(uriToLowerCase(stream.magnet), "magnet:")
    THEN stream.magnet
    ELSE IF UriTruthy(stream.url) /\ startsWith(uriToLowerCase(stream.url), "magnet:")
    THEN stream.url
    ELSE IF stream.infoHash # EmptyString
    THEN Uri("magnet:", stream.infoHash)
    ELSE Absent

\* StreamController.getStreamInfoHash; undefined is EmptyString.  The hashes
\* of the model carry no surrounding white space, so trim changes nothing.
getStreamInfoHash(stream) ==
    IF stream.infoHash # EmptyString
    THEN toLowerCase(stream.infoHash)
    ELSE LET magnet == extractStreamMagnet(stream)
         IN  IF ~UriTruthy(magnet) THEN EmptyString ELSE toLowerCase(magnet.btih)

\* Line 26-28: the filter of handleStreamRequest.
isProcessable(stream) ==
    \/ UriTruthy(stream.magnet)
    \/ stream.infoHash # EmptyString
    \/ (UriTruthy(stream.url) /\ startsWith(stream.url, "magnet:"))

\* The positions (in the list the sources delivered) of the streams that
\* pass the filter, in order.
processableStreams(sourceStreams) ==
    SelectSeq([n \in 1..Len(sourceStreams) |-> n],
              LAMBDA n : isProcessable(sourceStreams[n]))

\* ensureRealDebridAvailability lines 148-162: the positions of the streams
\* that are put into pendingHashes.
pendingStreams(sourceStreams) ==
    SelectSeq(processableStreams(sourceStreams),
              LAMBDA n : /\ sourceStreams[n].cached = "undefined"
                         /\ getStreamInfoHash(sourceStreams[n]) # EmptyString)

\* The keys of a Map in insertion order: every element once, first seen first.
RECURSIVE MapKeys(_)
MapKeys(s) ==
    IF s = <<>> THEN <<>>
    ELSE LET front == MapKeys(SubSeq(s, 1, Len(s) - 1))
             last == s[Len(s)]
         IN  IF last \in Range(front) THEN front ELSE Append(front, last)

\* [...pendingHashes.keys()], line 169.
pendingHashes(sourceStreams) ==
    LET pending == pendingStreams(sourceStreams)
    IN  MapKeys([n \in 1..Len(pending) |-> getStreamInfoHash(sourceStreams[pending[n]])])

\* Every pending stream counts as cached, whatever the lookup returned.
markCachedWithoutLookup(sourceStreams, cachedHashes) ==
    [n \in 1..Len(sourceStreams) |->
        IF n \in Range(pendingStreams(sourceStreams))
        THEN [sourceStreams[n] EXCEPT !.cached = "true"]
        ELSE sourceStreams[n]]

\* ensureRealDebridAvailability lines 173-180: the cached member of every
\* pending stream is set.
markCached(sourceStreams, cachedHashes) ==
    [n \in 1..Len(sourceStreams) |->
        IF n \in Range(pendingStreams(sourceStreams))
        THEN [sourceStreams[n] EXCEPT
                 !.cached = IF getStreamInfoHash(sourceStreams[n]) \in cachedHashes
                            THEN "true" ELSE "false"]
        ELSE sourceStreams[n]]

\* A member of an options object; undefined (Absent) if it has no such member.
OptionGet(options, key) == IF key \in DOMAIN options THEN options[key] ELSE Absent

\* StreamController.buildResolveUrl; the ctx parameter is left out.
buildResolveUrl(baseUrl, token, magnet) ==
    [scheme |-> "https:", base |-> baseUrl, path |-> "resolve",
     token |-> token, magnet |-> magnet]

\* StreamService.createStreamMetadata: the url and the behaviorHints of the
\* stream; candidate is the position of sourceStream in the delivered list.
createStreamMetadata(sourceStream, url, options, candidate) ==
    LET fallbackUrl ==
            IF UriTruthy(OptionGet(options, "fallbackUrl"))
            THEN OptionGet(options, "fallbackUrl")
            ELSE IF UriTruthy(sourceStream.magnet) THEN sourceStream.magnet
            ELSE sourceStream.url
        resolvedUrl == IF UriTruthy(url) THEN url ELSE fallbackUrl
    IN  [url |-> resolvedUrl,
         behaviorHints |->
            [notWebReady |-> options.forceNotWebReady,
             realDebridReady |-> options.realDebridReady,
             fallbackMagnet |-> IF UriTruthy(fallbackUrl) /\ startsWith(fallbackUrl, "magnet:")
                                THEN fallbackUrl ELSE Absent],
         infoHash |-> sourceStream.infoHash,
         candidate |-> candidate]

\* Lines 58-62.
commonOptions(stream, magnet) ==
    [fallbackMagnet |-> magnet, forceNotWebReady |-> TRUE,
     realDebridReady |-> (stream.cached = "true")]

\* Lines 50-71: the metadata of the processable streams that have a magnet.
streamMetadata(sourceStreams, realDebridToken, baseUrl) ==
    LET withMagnet == SelectSeq(processableStreams(sourceStreams),
                                LAMBDA n : UriTruthy(extractStreamMagnet(sourceStreams[n])))
    IN  [k \in 1..Len(withMagnet) |->
            LET stream == sourceStreams[withMagnet[k]]
                magnet == extractStreamMagnet(stream)
            IN  IF ~Truthy(realDebridToken)
                THEN createStreamMetadata(stream, magnet, commonOptions(stream, magnet),
                                          withMagnet[k])
                ELSE createStreamMetadata(stream,
                                          buildResolveUrl(baseUrl, realDebridToken, magnet),
                                          commonOptions(stream, magnet), withMagnet[k])]

\* A sort that puts the ready streams first but turns each group around.
sortByRealDebridReadyUnstable(streams) ==
    LET Reversed(q) == [k \in 1..Len(q) |-> q[Len(q) + 1 - k]]
    IN  Reversed(SelectSeq(streams, LAMBDA s : s.behaviorHints.realDebridReady))
          \o Reversed(SelectSeq(streams, LAMBDA s : ~s.behaviorHints.realDebridReady))

\* Lines 73-77: Array.prototype.sort with (a, b) => bReady - aReady, which is
\* stable: the ready streams first, each group in its former order.
sortByRealDebridReady(streams) ==
    SelectSeq(streams, LAMBDA s : s.behaviorHints.realDebridReady)
      \o SelectSeq(streams, LAMBDA s : ~s.behaviorHints.realDebridReady)

IdleListing ==
    [pc |-> "idle", extraToken |-> "", envToken |-> "", baseUrl |-> "",
     realDebridToken |-> "", sourceStreams |-> <<>>,
     lookedUp |-> FALSE, lookupHashes |-> <<>>, lookupToken |-> "",
     cachedHashes |-> {}, liveEntries |-> {},
     caught |-> "", escaped |-> "", completed |-> FALSE, streams |-> <<>>]

\* A catch block that throws the error again.
handleStreamRequestRethrows(request, error) ==
    [request EXCEPT !.pc = "done", !.escaped = error]

\* Lines 82-85: the catch block of handleStreamRequest.
handleStreamRequestCatch(request, error) ==
    [request EXCEPT !.pc = "done", !.caught = error, !.completed = TRUE,
                    !.streams = <<>>]

\* Lines 46-80: the streams are built, sorted and returned.
returnStreams(request, sourceStreams, buildThrows) ==
    IF buildThrows
    THEN handleStreamRequestCatch([request EXCEPT !.sourceStreams = sourceStreams],
                                  "TypeError")
    ELSE [request EXCEPT
             !.pc = "done", !.sourceStreams = sourceStreams, !.completed = TRUE,
             !.streams = sortByRealDebridReady(
                             streamMetadata(sourceStreams, request.realDebridToken,
                                            request.baseUrl))]

\* Lines 16-23: the request arrives and the sources are asked.
handleStreamRequest(extraToken, envToken, baseUrl) ==
    /\ listing.pc \in {"idle", "done"}
    /\ listing' = [IdleListing EXCEPT !.pc = "awaitSources", !.extraToken = extraToken,
                                      !.envToken = envToken, !.baseUrl = baseUrl]

\* Lines 23-44 and 146-171: the sources answered.  buildThrows tells whether
\* an exception is raised while the metadata is built.
SourcesReturn(sourceStreams, buildThrows) ==
    /\ listing.pc = "awaitSources"
    /\ LET realDebridToken == extractRealDebridToken(listing.extraToken, "", listing.envToken)
           request == [listing EXCEPT !.sourceStreams = sourceStreams,
                                      !.realDebridToken = realDebridToken]
       IN  listing' =
             IF Len(processableStreams(sourceStreams)) = 0
             THEN [request EXCEPT !.pc = "done", !.completed = TRUE, !.streams = <<>>]
             ELSE IF Len(pendingHashes(sourceStreams)) = 0
             THEN returnStreams(request, sourceStreams, buildThrows)
             ELSE [request EXCEPT
                     !.pc = "awaitAvailability", !.lookedUp = TRUE,
                     !.lookupHashes = pendingHashes(sourceStreams),
                     !.lookupToken = IF Truthy(realDebridToken) THEN realDebridToken
                                     ELSE listing.envToken]

\* Line 23: fetchStreamsFromAllSources throws.
SourcesThrow ==
    /\ listing.pc = "awaitSources"
    /\ listing' = handleStreamRequestCatch(listing, "SourceError")

\* Lines 173-180 and 46-80: fetchCachedInfoHashes answered.
AvailabilityReturns(cachedHashes, buildThrows) ==
    /\ listing.pc = "awaitAvailability"
    /\ listing' = returnStreams([listing EXCEPT !.cachedHashes = cachedHashes],
                                markCached(listing.sourceStreams, cachedHashes),
                                buildThrows)

\* Line 168: fetchCachedInfoHashes throws.
AvailabilityThrows ==
    /\ listing.pc = "awaitAvailability"
    /\ listing' = handleStreamRequestCatch(listing, "LookupError")

ListingIdle == listing = IdleListing

ListingStep ==
    \/ \E extraToken \in ListingTokens, envToken \in ListingTokens, baseUrl \in BaseUrls :
          handleStreamRequest(extraToken, envToken, baseUrl)
    \/ /\ listing.pc = "awaitSources"
       /\ \E sourceStreams \in SourceLists(MaxCandidates), buildThrows \in BOOLEAN :
             SourcesReturn(sourceStreams, buildThrows)
    \/ SourcesThrow
    \/ /\ listing.pc = "awaitAvailability"
       /\ \E cachedHashes \in SUBSET ReportedHashes, buildThrows \in BOOLEAN :
             AvailabilityReturns(cachedHashes, buildThrows)
    \/ AvailabilityThrows

(***************************************************************************)
(* Discovery: TorrentIndexerProvider.getStreams from its search loop on.   *)
(* A search hit (torrent) is modelled by what the loop looks at: whether   *)
(* isRelevantTorrent accepts it, its magnet string and the hash the        *)
(* indexer gave it (infoHash || hash || btih, EmptyString if none).        *)
(***************************************************************************)
\* The most streams getStreams returns.
MAX_STREAMS == 60

Torrent(relevant, magnet, infoHash) ==
    [relevant |-> relevant, magnet |-> magnet, infoHash |-> infoHash]

\* A relevant hit whose hash is written in upper case in its magnet only.
Plain(n) == Torrent(TRUE, Uri("magnet:", Up(n)), EmptyString)

\* A relevant hit with a lower-case hash, given by the indexer as well.
Hashed(n) == Torrent(TRUE, Uri("magnet:", Lo(n)), Lo(n))

\* Hits with the hashes from, from + 1, ..., to.
PlainHits(from, to) == [k \in 1..(to - from + 1) |-> Plain(from + k - 1)]

\* What fetchSearchResults may return for a query; <<>> also stands for a
\* failed search.
SearchResults ==
    { <<>>,
      <<Plain(1)>>,
      <<Hashed(1), Plain(1), Plain(2)>>,
      <<Plain(2), Torrent(TRUE, Uri("magnet:", Mx(2)), Mx(2)), Hashed(3)>>,
      <<Torrent(FALSE, Uri("magnet:", Lo(3)), Lo(3)),
        Torrent(TRUE, Absent, Lo(4)),
        Torrent(TRUE, Uri("MAGNET:", Lo(4)), EmptyString),
        Torrent(TRUE, Uri("magnet:", EmptyString), EmptyString),
        Torrent(TRUE, Uri("magnet:", EmptyString), EmptyString),
        Plain(3)>>,
      PlainHits(1, MAX_STREAMS - 1),
      PlainHits(1, MAX_STREAMS),
      <<Plain(1), Hashed(1)>> \o PlainHits(2, MAX_STREAMS + 1),
      PlainHits(3, MAX_STREAMS + 1) \o <<Hashed(3), Plain(MAX_STREAMS + 2)>> }

\* How many queries getStreams builds: none, the IMDb id or the text query,
\* or both.
QueryCounts == {0, 1, 2}

\* Lines 1165-1178: the magnet of a hit, if it starts with 'magnet:'.
extractMagnet(torrent) ==
    IF UriTruthy(torrent.magnet) /\ startsWith(torrent.magnet, "magnet:")
    THEN torrent.magnet
    ELSE Absent

\* Lines 1199-1202: magnet.match(/btih:([^&]+)/i)?.[1]; undefined is
\* EmptyString.
extractInfoHash(magnet) == magnet.btih

\* mapTorrentToStream returned undefined.
NoStream ==
    [magnet |-> Absent, infoHash |-> EmptyString, cached |-> "undefined", hit |-> <<0, 0>>]

\* mapTorrentToStream, lines 775-912: the magnet, infoHash and cached members
\* of the stream; hit is the query and the position the stream comes from.
mapTorrentToStream(torrent, hit) ==
    LET magnet == extractMagnet(torrent)
    IN  IF ~UriTruthy(magnet)
        THEN NoStream
        ELSE [magnet |-> magnet,
              infoHash |-> IF torrent.infoHash # EmptyString THEN torrent.infoHash
                           ELSE extractInfoHash(magnet),
              cached |-> "false",
              hit |-> hit]

\* The key without toLowerCase.
getDedupeKeyAsWritten(stream) ==
    IF stream.infoHash # EmptyString THEN stream.infoHash
    ELSE IF UriTruthy(stream.magnet)
    THEN IF extractInfoHash(stream.magnet) # EmptyString
         THEN extractInfoHash(stream.magnet)
         ELSE stream.magnet
    ELSE EmptyString

\* getDedupeKey, lines 220-232; undefined is EmptyString.
getDedupeKey(stream) ==
    IF stream.infoHash # EmptyString THEN toLowerCase(stream.infoHash)
    ELSE IF UriTruthy(stream.magnet)
    THEN IF extractInfoHash(stream.magnet) # EmptyString
         THEN toLowerCase(extractInfoHash(stream.magnet))
         ELSE stream.magnet
    ELSE EmptyString

\* Lines 185-208: the inner loop over the hits of one query, from hit n on.
\* found holds streams, seen and whether MAX_STREAMS was reached.
RECURSIVE collectStreams(_, _, _, _)
collectStreams(found, torrents, query, n) ==
    IF n > Len(torrents) \/ found.full
    THEN found
    ELSE LET stream == mapTorrentToStream(torrents[n], <<query, n>>)
             dedupeKey == getDedupeKey(stream)
         IN  IF \/ ~torrents[n].relevant
                \/ stream = NoStream
                \/ (dedupeKey # EmptyString /\ dedupeKey \in found.seen)
             THEN collectStreams(found, torrents, query, n + 1)
             ELSE collectStreams(
                      [streams |-> Append(found.streams, stream),
                       seen |-> IF dedupeKey # EmptyString
                                THEN found.seen \cup {dedupeKey} ELSE found.seen,
                       full |-> Len(found.streams) + 1 >= MAX_STREAMS],
                      torrents, query, n + 1)

\* TorrentIndexerProvider.getStreamInfoHash, lines 289-302.
getStreamInfoHashOfProvider(stream) ==
    IF stream.infoHash # EmptyString
    THEN toLowerCase(stream.infoHash)
    ELSE IF startsWith(stream.magnet, "magnet:")
    THEN toLowerCase(extractInfoHash(stream.magnet))
    ELSE EmptyString

\* decorateWithRealDebrid, lines 276-287: cached is set on every stream
\* that has a hash; the others have got cached = false at line 243.
decorate(streams, cachedHashes) ==
    [k \in 1..Len(streams) |->
        [streams[k] EXCEPT
            !.cached = IF getStreamInfoHashOfProvider(streams[k]) # EmptyString
                          /\ getStreamInfoHashOfProvider(streams[k]) \in cachedHashes
                       THEN "true" ELSE "false"]]

\* An absent (undefined) number.
NoNumber == 0 - 1

\* No MatchContext: the context of a call whose id was not looked at.
NoMatchContext ==
    [parsed |-> [imdbId |-> <<>>, query |-> <<>>, season |-> NoNumber, episode |-> NoNumber],
     type |-> <<>>, targetTitles |-> <<>>, releaseYear |-> NoNumber]

IdleDiscovery ==
    [pc |-> "idle", token |-> "", queries |-> 0, results |-> <<>>,
     streams |-> <<>>, seen |-> {}, capped |-> FALSE, lookedUp |-> FALSE,
     cachedHashes |-> {}, context |-> NoMatchContext]

\* Lines 133-182: getStreams is called and sends its first query.
getStreams(queries, token) ==
    /\ discovery.pc \in {"idle", "done"}
    /\ discovery' = [IdleDiscovery EXCEPT !.pc = IF queries = 0 THEN "done" ELSE "awaitSearch",
                                          !.queries = queries, !.token = token]

\* Lines 183-217 and 238-263: the hits of a query arrive.
SearchReturns(torrents) ==
    /\ discovery.pc = "awaitSearch"
    /\ LET query == Len(discovery.results) + 1
           found == collectStreams([streams |-> discovery.streams,
                                    seen |-> discovery.seen, full |-> FALSE],
                                   torrents, query, 1)
           next == [discovery EXCEPT !.results = Append(@, torrents),
                                     !.streams = found.streams,
                                     !.seen = found.seen,
                                     !.capped = found.full]
       IN  discovery' =
             IF found.full THEN [next EXCEPT !.pc = "done"]
             ELSE IF query < discovery.queries THEN next
             ELSE IF Len(found.streams) = 0 THEN [next EXCEPT !.pc = "done"]
             ELSE IF \/ \A k \in 1..Len(found.streams) :
                          getStreamInfoHashOfProvider(found.streams[k]) = EmptyString
                     \/ ~Truthy(discovery.token)
             THEN [next EXCEPT !.pc = "done", !.streams = decorate(found.streams, {})]
             ELSE [next EXCEPT !.pc = "awaitAvailability", !.lookedUp = TRUE]

\* Lines 265-287: fetchCachedInfoHashes answers decorateWithRealDebrid.
DecorateLookupReturns(cachedHashes) ==
    /\ discovery.pc = "awaitAvailability"
    /\ discovery' = [discovery EXCEPT !.pc = "done",
                                      !.cachedHashes = cachedHashes,
                                      !.streams = decorate(@, cachedHashes)]

\* Lines 272-274: fetchCachedInfoHashes throws; nothing counts as cached.
DecorateLookupThrows ==
    /\ discovery.pc = "awaitAvailability"
    /\ discovery' = [discovery EXCEPT !.pc = "done", !.streams = decorate(@, {})]

DiscoveryIdle == discovery = IdleDiscovery

DiscoveryStep ==
    \/ \E queries \in QueryCounts, token \in Tokens : getStreams(queries, token)
    \/ /\ discovery.pc = "awaitSearch"
       /\ \E torrents \in SearchResults : SearchReturns(torrents)
    \/ \E cachedHashes \in SUBSET ReportedHashes : DecorateLookupReturns(cachedHashes)
    \/ DecorateLookupThrows

(***************************************************************************)
(* A listing request from its sources to its output.  handleStreamRequest  *)
(* asks the sources, the indexer provider discovers and decorates its      *)
(* candidates, and the orchestrator looks up the candidates whose cached   *)
(* member is still undefined.  SourceService is taken by its interface: it *)
(* calls getStreams of the provider once for the request and hands on what *)
(* the providers return.  It is called with the type and the id only       *)
(* (part_001 line 23), so the only credential it can pass to a provider is *)
(* REALDEBRID_TOKEN.                                                       *)
(***************************************************************************)
\* What the indexer answers to a query of a listing request.
ListingSearchResults ==
    { <<>>,
      <<Hashed(1), Plain(1), Plain(2)>>,
      <<Torrent(TRUE, Uri("magnet:", EmptyString), EmptyString), Hashed(2)>>,
      PlainHits(1, MAX_STREAMS) }

\* The candidates of a provider that leaves the cached member unset.
UndecidedCandidates ==
    { <<>>,
      <<SourceStream(Uri("magnet:", Up(2)), Absent, EmptyString, "undefined")>>,
      <<SourceStream(Absent, Absent, Lo(1), "undefined"),
        SourceStream(Uri("magnet:", EmptyString), Absent, EmptyString, "undefined")>> }

\* The SourceStream members of the streams getStreams returned.
toSourceStreams(streams) ==
    [k \in 1..Len(streams) |->
        SourceStream(streams[k].magnet, Absent, streams[k].infoHash, streams[k].cached)]

\* RealDebridService.fetchCachedInfoHashes, part_000 lines 39-101, by its
\* result.  live are the hashes with a live entry that says cached, fetched
\* is what the payloads of the queries confirm.  A hash with a live entry
\* that says not cached is the same as one that the fetch does not confirm.
cachedInfoHashes(hashes, token, live, fetched) ==
    LET normalized == {toLowerCase(hashes[k]) : k \in 1..Len(hashes)} \ {EmptyString}
        fromCache == normalized \cap live
        toFetch == IF Truthy(token) THEN normalized \ live ELSE {}
    IN  IF ~Truthy(token) \/ toFetch = {} THEN fromCache ELSE fromCache \cup fetched

\* handleStreamRequest lines 16-23: a request arrives.
ListingRequested(extraToken, envToken) ==
    /\ handleStreamRequest(extraToken, envToken, "https://addon.example.org")
    /\ discovery' = IdleDiscovery

\* SourceService calls getStreams of the provider.
ProviderAsked(queries, token) ==
    /\ listing.pc = "awaitSources"
    /\ discovery.pc = "idle"
    /\ token \in {"", listing.envToken}
    /\ getStreams(queries, token)
    /\ UNCHANGED listing

ProviderSearchReturns(torrents) ==
    /\ listing.pc = "awaitSources"
    /\ SearchReturns(torrents)
    /\ UNCHANGED listing

ProviderLookupReturns(cachedHashes) ==
    /\ listing.pc = "awaitSources"
    /\ DecorateLookupReturns(cachedHashes)
    /\ UNCHANGED listing

ProviderLookupThrows ==
    /\ listing.pc = "awaitSources"
    /\ DecorateLookupThrows
    /\ UNCHANGED listing

\* fetchStreamsFromAllSources returns the candidates of the indexer provider
\* and those of the other providers.
SourcesDeliver(others, buildThrows) ==
    /\ discovery.pc = "done"
    /\ SourcesReturn(toSourceStreams(discovery.streams) \o others, buildThrows)
    /\ UNCHANGED discovery

\* Lines 168-180 and 46-80: the lookup of the orchestrator answered.
LookupAnswers(live, fetched, buildThrows) ==
    /\ listing.pc = "awaitAvailability"
    /\ LET cachedHashes == cachedInfoHashes(listing.lookupHashes, listing.lookupToken,
                                            live, fetched)
       IN  listing' = returnStreams([listing EXCEPT !.cachedHashes = cachedHashes,
                                                    !.liveEntries = live],
                                    markCached(listing.sourceStreams, cachedHashes),
                                    buildThrows)
    /\ UNCHANGED discovery

LookupThrows == AvailabilityThrows /\ UNCHANGED discovery

ReadyStep ==
    \/ \E extraToken \in ListingTokens, envToken \in ListingTokens :
          ListingRequested(extraToken, envToken)
    \/ \E queries \in QueryCounts, token \in ListingTokens : ProviderAsked(queries, token)
    \/ /\ discovery.pc = "awaitSearch"
       /\ \E torrents \in ListingSearchResults : ProviderSearchReturns(torrents)
    \/ \E cachedHashes \in SUBSET ReportedHashes : ProviderLookupReturns(cachedHashes)
    \/ ProviderLookupThrows
    \/ /\ listing.pc = "awaitSources"
       /\ \E others \in UndecidedCandidates, buildThrows \in BOOLEAN :
             SourcesDeliver(others, buildThrows)
    \/ /\ listing.pc = "awaitAvailability"
       /\ \E live \in SUBSET ReportedHashes, fetched \in SUBSET ReportedHashes,
             buildThrows \in BOOLEAN :
             LookupAnswers(live, fetched, buildThrows)
    \/ LookupThrows

(***************************************************************************)
(* The stream context codec: StreamService.encodeStreamContext and         *)
(* decodeStreamContext.  A string is the sequence of its character codes,  *)
(* a Buffer the sequence of its bytes.  A JavaScript value is a record     *)
(* [t, n, s, items]: t is its type, n the value of a number, s the         *)
(* characters of a string, items the members [key, val] of an object or    *)
(* of an array (whose keys are left empty).  The numbers are integers or   *)
(* Infinity.                                                               *)
(***************************************************************************)
\* The printable ASCII characters, from code 32 on; the double quote (34),
\* the backslash (92) and the backtick (96) are written by their names.
AsciiTable ==
    <<" ", "!", "quote", "#", "$", "%", "&", "'", "(", ")", "*", "+", ",", "-", ".", "/",
      "0", "1", "2", "3", "4", "5", "6", "7", "8", "9", ":", ";", "<", "=", ">", "?",
      "@", "A", "B", "C", "D", "E", "F", "G", "H", "I", "J", "K", "L", "M", "N", "O",
      "P", "Q", "R", "S", "T", "U", "V", "W", "X", "Y", "Z", "[", "backslash", "]", "^", "_",
      "backtick", "a", "b", "c", "d", "e", "f", "g", "h", "i", "j", "k", "l", "m", "n", "o",
      "p", "q", "r", "s", "t", "u", "v", "w", "x", "y", "z", "{", "|", "}", "~">>

\* String.prototype.charCodeAt of a printable ASCII character.
Code(ch) == 31 + (CHOOSE i \in 1..Len(AsciiTable) : AsciiTable[i] = ch)

\* The string spelled by the characters chars.
Str(chars) == [i \in 1..Len(chars) |-> Code(chars[i])]

NumberValue(n) == [t |-> "number", n |-> n, s |-> <<>>, items |-> <<>>]
InfinityValue == [t |-> "Infinity", n |-> 0, s |-> <<>>, items |-> <<>>]
StringValue(s) == [t |-> "string", n |-> 0, s |-> s, items |-> <<>>]
NullValue == [t |-> "null", n |-> 0, s |-> <<>>, items |-> <<>>]
UndefinedValue == [t |-> "undefined", n |-> 0, s |-> <<>>, items |-> <<>>]
Member(key, val) == [key |-> key, val |-> val]
ArrayValue(values) ==
    [t |-> "array", n |-> 0, s |-> <<>>,
     items |-> [i \in 1..Len(values) |-> Member(<<>>, values[i])]]
ObjectValue(members) == [t |-> "object", n |-> 0, s |-> <<>>, items |-> members]

\* An object literal in which the members without a value are left out.
ObjectOf(members) == ObjectValue(SelectSeq(members, LAMBDA m : m.val # UndefinedValue))

(***************************************************************************)
(* JSON.stringify.                                                         *)
(***************************************************************************)
RECURSIVE Digits(_)
Digits(n) == IF n < 10 THEN <<48 + n>> ELSE Append(Digits(n \div 10), 48 + (n % 10))

\* Number.prototype.toString of an integer.
numberToString(n) == IF n < 0 THEN <<45>> \o Digits(0 - n) ELSE Digits(n)

HexDigit(d) == IF d < 10 THEN 48 + d ELSE 87 + d

\* QuoteJSONString of ECMA-262, for one character.
quoteChar(c) ==
    CASE c = 34 -> <<92, 34>>
      [] c = 92 -> <<92, 92>>
      [] c = 8 -> <<92, 98>>
      [] c = 9 -> <<92, 116>>
      [] c = 10 -> <<92, 110>>
      [] c = 12 -> <<92, 102>>
      [] c = 13 -> <<92, 114>>
      [] c < 32 /\ c \notin {8, 9, 10, 12, 13} ->
            <<92, 117, 48, 48, HexDigit(c \div 16), HexDigit(c % 16)>>
      [] OTHER -> <<c>>

RECURSIVE quoteChars(_)
quoteChars(s) == IF s = <<>> THEN <<>> ELSE quoteChar(Head(s)) \o quoteChars(Tail(s))

quote(s) == <<34>> \o quoteChars(s) \o <<34>>

RECURSIVE stringify(_)
RECURSIVE stringifyItems(_, _)

\* The members of an object (isObject) or the elements of an array, joined
\* by commas.
stringifyItems(items, isObject) ==
    IF items = <<>> THEN <<>>
    ELSE LET text == (IF isObject THEN quote(Head(items).key) \o <<58>> ELSE <<>>)
                        \o stringify(Head(items).val)
         IN  IF Len(items) = 1 THEN text
             ELSE text \o <<44>> \o stringifyItems(Tail(items), isObject)

\* JSON.stringify(value): a number that is not finite becomes null, and so
\* does undefined as an array element; object members whose value is
\* undefined are left out.
stringify(value) ==
    CASE value.t = "number" -> numberToString(value.n)
      [] value.t = "string" -> quote(value.s)
      [] value.t = "array" -> <<91>> \o stringifyItems(value.items, FALSE) \o <<93>>
      [] value.t = "object" ->
            <<123>> \o stringifyItems(SelectSeq(value.items,
                                                LAMBDA m : m.val.t # "undefined"), TRUE)
                    \o <<125>>
      [] OTHER -> Str(<<"n", "u", "l", "l">>)

(***************************************************************************)
(* Buffer.from(string, 'utf-8') and buffer.toString('utf-8'), for the      *)
(* characters of the Basic Multilingual Plane.                             *)
(***************************************************************************)
utf8Bytes(c) ==
    IF c < 128 THEN <<c>>
    ELSE IF c < 2048 THEN <<192 + (c \div 64), 128 + (c % 64)>>
    ELSE <<224 + (c \div 4096), 128 + ((c \div 64) % 64), 128 + (c % 64)>>

\* The bytes of the characters of s, one half of s after the other.
RECURSIVE utf8Encode(_)
utf8Encode(s) ==
    IF Len(s) = 0 THEN <<>>
    ELSE IF Len(s) = 1 THEN utf8Bytes(s[1])
    ELSE utf8Encode(SubSeq(s, 1, Len(s) \div 2))
           \o utf8Encode(SubSeq(s, (Len(s) \div 2) + 1, Len(s)))

ByteAt(bytes, p) == IF p <= Len(bytes) THEN bytes[p] ELSE 0

IsContinuation(b) == b \in 128..191

\* The character decoded at position p and the position after it; a byte
\* that starts no well-formed sequence gives U+FFFD.
utf8DecodeAt(bytes, p) ==
    LET b1 == bytes[p]
        b2 == ByteAt(bytes, p + 1)
        b3 == ByteAt(bytes, p + 2)
        two == (b1 - 192) * 64 + (b2 - 128)
        three == (b1 - 224) * 4096 + (b2 - 128) * 64 + (b3 - 128)
    IN  IF b1 < 128 THEN [char |-> b1, next |-> p + 1]
        ELSE IF b1 \in 194..223 /\ IsContinuation(b2)
        THEN [char |-> two, next |-> p + 2]
        ELSE IF /\ b1 \in 224..239 /\ IsContinuation(b2) /\ IsContinuation(b3)
                /\ three >= 2048 /\ three \notin 55296..57343
        THEN [char |-> three, next |-> p + 3]
        ELSE [char |-> 65533, next |-> p + 1]

\* Whether the byte at p is taken by the sequence that starts one or two
\* bytes before it.  Only continuation bytes are ever taken, so a byte that
\* is none always starts a character.
IsTaken(bytes, p) ==
    /\ IsContinuation(bytes[p])
    /\ \/ p > 1 /\ ~IsContinuation(bytes[p - 1]) /\ utf8DecodeAt(bytes, p - 1).next > p
       \/ p > 2 /\ ~IsContinuation(bytes[p - 2]) /\ utf8DecodeAt(bytes, p - 2).next > p

\* The characters decoded at the positions where a character starts.
utf8Decode(bytes) ==
    LET starts == SelectSeq([p \in 1..Len(bytes) |-> p], LAMBDA p : ~IsTaken(bytes, p))
    IN  [k \in 1..Len(starts) |-> utf8DecodeAt(bytes, starts[k]).char]

(***************************************************************************)
(* buffer.toString('base64') and Buffer.from(string, 'base64').            *)
(***************************************************************************)
\* The character of a 6-bit value in the base64 alphabet.
Base64Char(v) ==
    IF v < 26 THEN 65 + v
    ELSE IF v < 52 THEN 97 + (v - 26)
    ELSE IF v < 62 THEN 48 + (v - 52)
    ELSE IF v = 62 THEN 43
    ELSE 47

\* Four characters for every three bytes; a last group of one or two bytes
\* is filled up with '='.
toBase64(b) ==
    [i \in 1..(4 * ((Len(b) + 2) \div 3)) |->
        LET first == 3 * ((i - 1) \div 4) + 1
            b1 == b[first]
            b2 == ByteAt(b, first + 1)
            b3 == ByteAt(b, first + 2)
        IN  CASE (i - 1) % 4 = 0 -> Base64Char(b1 \div 4)
              [] (i - 1) % 4 = 1 -> Base64Char((b1 % 4) * 16 + (b2 \div 16))
              [] (i - 1) % 4 = 2 -> IF first + 1 > Len(b) THEN 61
                                    ELSE Base64Char((b2 % 16) * 4 + (b3 \div 64))
              [] OTHER -> IF first + 2 > Len(b) THEN 61 ELSE Base64Char(b3 % 64)]

\* The 6-bit value of a character; Node also takes the URL-safe '-' and '_'.
\* 64 for a character outside the alphabet.
Base64Value(c) ==
    IF c \in 65..90 THEN c - 65
    ELSE IF c \in 97..122 THEN c - 97 + 26
    ELSE IF c \in 48..57 THEN c - 48 + 52
    ELSE IF c \in {43, 45} THEN 62
    ELSE IF c \in {47, 95} THEN 63
    ELSE 64

\* The text up to its first '='.
beforePadding(text) ==
    LET pads == {i \in 1..Len(text) : text[i] = 61}
    IN  IF pads = {} THEN text
        ELSE SubSeq(text, 1, (CHOOSE i \in pads : \A j \in pads : i <= j) - 1)

\* Three bytes for every four 6-bit values; a last group of two or three
\* values gives one or two bytes, a single value none.
fromSextets(v) ==
    [j \in 1..(3 * (Len(v) \div 4) + (IF Len(v) % 4 > 1 THEN (Len(v) % 4) - 1 ELSE 0)) |->
        LET first == 4 * ((j - 1) \div 3) + 1
        IN  CASE (j - 1) % 3 = 0 -> v[first] * 4 + (v[first + 1] \div 16)
              [] (j - 1) % 3 = 1 -> (v[first + 1] % 16) * 16 + (v[first + 2] \div 4)
              [] OTHER -> (v[first + 2] % 4) * 64 + v[first + 3]]

\* Node's decoder: it stops at the first '=', skips the characters outside
\* the alphabet and drops a dangling 6-bit value.
fromBase64(text) ==
    LET chars == SelectSeq(beforePadding(text), LAMBDA c : Base64Value(c) # 64)
    IN  fromSextets([i \in 1..Len(chars) |-> Base64Value(chars[i])])

\* String.prototype.replace(/c/g, by) for a single character c.
replaceAll(text, c, by) == [i \in 1..Len(text) |-> IF text[i] = c THEN by ELSE text[i]]

\* String.prototype.replace(/=+$/g, '').
RECURSIVE stripPadding(_)
stripPadding(text) ==
    IF text # <<>> /\ text[Len(text)] = 61
    THEN stripPadding(SubSeq(text, 1, Len(text) - 1))
    ELSE text

\* Lines 81-83: '=' is appended until the length is a multiple of 4.
RECURSIVE padToFour(_)
padToFour(text) == IF Len(text) % 4 # 0 THEN padToFour(Append(text, 61)) ELSE text

(***************************************************************************)
(* JSON.parse: a result is [ok, value, next]; next is the position after   *)
(* the value, ok = FALSE a SyntaxError.                                    *)
(***************************************************************************)
CharAt(text, p) == IF p <= Len(text) THEN text[p] ELSE 0

SyntaxError == [ok |-> FALSE, value |-> UndefinedValue, next |-> 0]

Parsed(value, next) == [ok |-> TRUE, value |-> value, next |-> next]

RECURSIVE skipWhitespace(_, _)
skipWhitespace(text, p) ==
    IF CharAt(text, p) \in {9, 10, 13, 32} THEN skipWhitespace(text, p + 1) ELSE p

IsDigit(c) == c \in 48..57

RECURSIVE parseDigits(_, _, _)
parseDigits(text, p, n) ==
    IF IsDigit(CharAt(text, p))
    THEN parseDigits(text, p + 1, n * 10 + (text[p] - 48))
    ELSE [n |-> n, next |-> p]

\* An integer; a fraction or an exponent is not among the model's numbers.
parseNumber(text, p) ==
    LET first == IF CharAt(text, p) = 45 THEN p + 1 ELSE p
        digits == parseDigits(text, first, 0)
    IN  IF ~IsDigit(CharAt(text, first)) THEN SyntaxError
        ELSE IF CharAt(text, first) = 48 /\ IsDigit(CharAt(text, first + 1)) THEN SyntaxError
        ELSE IF CharAt(text, digits.next) \in {46, 69, 101} THEN SyntaxError
        ELSE Parsed(NumberValue(IF first = p THEN digits.n ELSE 0 - digits.n), digits.next)

\* The value of a hexadecimal digit, 16 for any other character.
HexValue(c) ==
    IF c \in 48..57 THEN c - 48
    ELSE IF c \in 97..102 THEN c - 87
    ELSE IF c \in 65..70 THEN c - 55
    ELSE 16

\* The character an escape letter stands for, 0 if it is none.
Unescaped(c) ==
    CASE c \in {34, 47, 92} -> c
      [] c = 98 -> 8
      [] c = 102 -> 12
      [] c = 110 -> 10
      [] c = 114 -> 13
      [] c = 116 -> 9
      [] OTHER -> 0

\* The characters of a string from position p, after its opening quote.
RECURSIVE parseChars(_, _, _)
parseChars(text, p, chars) ==
    LET c == CharAt(text, p)
        e == CharAt(text, p + 1)
        h == [i \in 1..4 |-> HexValue(CharAt(text, p + 1 + i))]
    IN  IF c < 32 THEN SyntaxError
        ELSE IF c = 34 THEN Parsed(StringValue(chars), p + 1)
        ELSE IF c # 92 THEN parseChars(text, p + 1, Append(chars, c))
        ELSE IF Unescaped(e) # 0 THEN parseChars(text, p + 2, Append(chars, Unescaped(e)))
        ELSE IF e = 117 /\ \A i \in 1..4 : h[i] < 16
        THEN parseChars(text, p + 6,
                        Append(chars, h[1] * 4096 + h[2] * 256 + h[3] * 16 + h[4]))
        ELSE SyntaxError

\* The literal word at position p.
parseLiteral(text, p, word, value) ==
    IF p + Len(word) - 1 <= Len(text) /\ SubSeq(text, p, p + Len(word) - 1) = word
    THEN Parsed(value, p + Len(word))
    ELSE SyntaxError

\* A member is added to an object; a repeated key takes the later value.
setMember(members, key, val) ==
    IF \E i \in 1..Len(members) : members[i].key = key
    THEN [i \in 1..Len(members) |->
             IF members[i].key = key THEN Member(key, val) ELSE members[i]]
    ELSE Append(members, Member(key, val))

BooleanValue(b) == [t |-> "boolean", n |-> IF b THEN 1 ELSE 0, s |-> <<>>, items |-> <<>>]

RECURSIVE parseValue(_, _)
RECURSIVE parseElements(_, _, _)
RECURSIVE parseMembers(_, _, _)

\* The elements of an array from position p, after '[' or ','.
parseElements(text, p, values) ==
    LET r == parseValue(text, p)
        q == skipWhitespace(text, r.next)
    IN  IF ~r.ok THEN SyntaxError
        ELSE IF CharAt(text, q) = 44 THEN parseElements(text, q + 1, Append(values, r.value))
        ELSE IF CharAt(text, q) = 93 THEN Parsed(ArrayValue(Append(values, r.value)), q + 1)
        ELSE SyntaxError

\* The members of an object from position p, after '{' or ','.
parseMembers(text, p, members) ==
    LET k == skipWhitespace(text, p)
        key == parseChars(text, k + 1, <<>>)
        colon == skipWhitespace(text, key.next)
        r == parseValue(text, colon + 1)
        q == skipWhitespace(text, r.next)
    IN  IF CharAt(text, k) # 34 \/ ~key.ok THEN SyntaxError
        ELSE IF CharAt(text, colon) # 58 THEN SyntaxError
        ELSE IF ~r.ok THEN SyntaxError
        ELSE IF CharAt(text, q) = 44
        THEN parseMembers(text, q + 1, setMember(members, key.value.s, r.value))
        ELSE IF CharAt(text, q) = 125
        THEN Parsed(ObjectValue(setMember(members, key.value.s, r.value)), q + 1)
        ELSE SyntaxError

parseValue(text, from) ==
    LET p == skipWhitespace(text, from)
        c == CharAt(text, p)
        q == skipWhitespace(text, p + 1)
    IN  CASE c = 123 -> IF CharAt(text, q) = 125 THEN Parsed(ObjectValue(<<>>), q + 1)
                        ELSE parseMembers(text, q, <<>>)
          [] c = 91 -> IF CharAt(text, q) = 93 THEN Parsed(ArrayValue(<<>>), q + 1)
                       ELSE parseElements(text, q, <<>>)
          [] c = 34 -> parseChars(text, p + 1, <<>>)
          [] c = 45 \/ IsDigit(c) -> parseNumber(text, p)
          [] c = 110 -> parseLiteral(text, p, Str(<<"n", "u", "l", "l">>), NullValue)
          [] c = 116 -> parseLiteral(text, p, Str(<<"t", "r", "u", "e">>), BooleanValue(TRUE))
          [] c = 102 -> parseLiteral(text, p, Str(<<"f", "a", "l", "s", "e">>),
                                     BooleanValue(FALSE))
          [] OTHER -> SyntaxError

\* JSON.parse(text): the whole text has to be one value.
parse(text) ==
    LET r == parseValue(text, 1)
    IN  IF r.ok /\ skipWhitespace(text, r.next) > Len(text) THEN r ELSE SyntaxError

(***************************************************************************)
(* StreamService.encodeStreamContext and decodeStreamContext; undefined is *)
(* UndefinedValue for a context and the empty string for an encoding.      *)
(***************************************************************************)
\* Line 68, without the removal of the padding.
urlSafe(base64) == replaceAll(replaceAll(base64, 43, 45), 47, 95)

encodeStreamContext(context) ==
    IF context \in {UndefinedValue, NullValue}
    THEN <<>>
    ELSE LET json == stringify(context)
             buffer == utf8Encode(json)
             base64 == toBase64(buffer)
         IN  IF json = <<>> THEN <<>> ELSE stripPadding(urlSafe(base64))

decodeStreamContext(encoded) ==
    IF encoded = <<>>
    THEN UndefinedValue
    ELSE LET normalized == padToFour(replaceAll(replaceAll(encoded, 45, 43), 95, 47))
             buffer == fromBase64(normalized)
             json == utf8Decode(buffer)
             context == parse(json)
         IN  IF json = <<>> \/ ~context.ok THEN UndefinedValue ELSE context.value

\* The values a member of a StreamContext may have; UndefinedValue is a
\* member that is not populated.
TypeValues == {UndefinedValue, StringValue(Str(<<"s", "e", "r", "i", "e", "s">>))}

SeasonValues == {UndefinedValue, NumberValue(1), InfinityValue}

EpisodeValues == {UndefinedValue, NumberValue(0), NumberValue(12)}

\* 'O "Fim"?' and a second line.
EpisodeTitleValues ==
    {UndefinedValue,
     StringValue(Str(<<"O", " ", "quote", "F", "i", "m", "quote", "?">>)
                   \o <<10>> \o Str(<<"backslash", "2">>))}

\* 'Até>~?' with U+00E9 and a title with U+20AC and U+00FF.
TitleValues ==
    {UndefinedValue,
     StringValue(Str(<<"A", "t">>) \o <<233>> \o Str(<<">", "~", "?">>)),
     StringValue(<<8364, 255>> \o Str(<<"?", "?", "?">>))}

YearValues == {UndefinedValue, NumberValue(2024)}

EpisodeListValues ==
    {UndefinedValue, ArrayValue(<<>>),
     ArrayValue(<<NumberValue(1), NumberValue(2), NumberValue(10)>>)}

\* A StreamContext with the given members, in the order mapTorrentToStream
\* sets them.
StreamContext(type, season, episode, episodeTitle, title, year, episodeList) ==
    ObjectOf(<<Member(Str(<<"t", "y", "p", "e">>), type),
               Member(Str(<<"s", "e", "a", "s", "o", "n">>), season),
               Member(Str(<<"e", "p", "i", "s", "o", "d", "e">>), episode),
               Member(Str(<<"e", "p", "i", "s", "o", "d", "e", "T", "i", "t", "l", "e">>),
                      episodeTitle),
               Member(Str(<<"t", "i", "t", "l", "e">>), title),
               Member(Str(<<"y", "e", "a", "r">>), year),
               Member(Str(<<"e", "p", "i", "s", "o", "d", "e", "L", "i", "s", "t">>),
                      episodeList)>>)

\* The contexts: every subset of the members populated, and no context.
StreamContexts ==
    {UndefinedValue} \cup
    {StreamContext(type, season, episode, episodeTitle, title, year, episodeList) :
        type \in TypeValues, season \in SeasonValues, episode \in EpisodeValues,
        episodeTitle \in EpisodeTitleValues, title \in TitleValues,
        year \in YearValues, episodeList \in EpisodeListValues}

\* Values of the ctx parameter of a resolve request that this service did
\* not encode: '{}' with and without padding, 'null', a cut-off object and
\* characters outside the alphabet.
CtxParameters ==
    {Str(<<"e", "3", "0">>), Str(<<"e", "3", "0", "=">>), Str(<<"b", "n", "V", "s", "b", "A">>),
     Str(<<"e", "y", "J">>), Str(<<"!", "!">>)}

IdleCodec ==
    [pc |-> "idle", context |-> UndefinedValue, encoded |-> <<>>,
     decoded |-> UndefinedValue]

\* buildResolveUrl line 191: a context is encoded.
EncodeContext(context) ==
    /\ codec.pc = "idle"
    /\ codec' = [codec EXCEPT !.pc = "encoded", !.context = context,
                              !.encoded = encodeStreamContext(context)]

\* routes.ts line 134: the encoding comes back and is decoded.
DecodeContext ==
    /\ codec.pc = "encoded"
    /\ codec' = [codec EXCEPT !.pc = "decoded",
                              !.decoded = decodeStreamContext(codec.encoded)]

\* routes.ts line 134: a ctx parameter of another origin is decoded.
DecodeParameter(encoded) ==
    /\ codec.pc = "idle"
    /\ codec' = [codec EXCEPT !.pc = "parsed", !.encoded = encoded,
                              !.decoded = decodeStreamContext(encoded)]

CodecIdle == codec = IdleCodec

CodecStep ==
    \/ /\ codec.pc = "idle"
       /\ \E context \in StreamContexts : EncodeContext(context)
    \/ DecodeContext
    \/ /\ codec.pc = "idle"
       /\ \E encoded \in CtxParameters : DecodeParameter(encoded)

(***************************************************************************)
(* The deferred-resolve round trip: the url StreamController.buildResolveUrl *)
(* puts into an emitted stream is requested by the player and goes through *)
(* the router of routes.ts.  A url is modelled by the segments of its path *)
(* and by the token, magnet and ctx parameters of its query, all as        *)
(* written in the url (percent-encoded); a parameter that is not there is  *)
(* <<>>.  Texts are ASCII.  The router hands path parameters over as       *)
(* written, and query parameters decoded.                                  *)
(***************************************************************************)
\* The upper-case hexadecimal digit of d.
HexUpper(d) == IF d < 10 THEN 48 + d ELSE 55 + d

\* %XX of a character.
percentEncoded(c) == <<37, HexUpper(c \div 16), HexUpper(c % 16)>>

IsAlphanumeric(c) == c \in 48..57 \/ c \in 65..90 \/ c \in 97..122

\* URLSearchParams serialisation (application/x-www-form-urlencoded):
\* alphanumerics and * - . _ stay, a space becomes +.
RECURSIVE formUrlEncode(_)
formUrlEncode(text) ==
    IF text = <<>> THEN <<>>
    ELSE LET c == Head(text)
         IN  (IF IsAlphanumeric(c) \/ c \in {42, 45, 46, 95} THEN <<c>>
              ELSE IF c = 32 THEN <<43>>
              ELSE percentEncoded(c)) \o formUrlEncode(Tail(text))

\* encodeURIComponent: alphanumerics and - _ . ! ~ * ' ( ) stay.
RECURSIVE encodeURIComponent(_)
encodeURIComponent(text) ==
    IF text = <<>> THEN <<>>
    ELSE LET c == Head(text)
         IN  (IF IsAlphanumeric(c) \/ c \in {45, 95, 46, 33, 126, 42, 39, 40, 41}
              THEN <<c>>
              ELSE percentEncoded(c)) \o encodeURIComponent(Tail(text))

\* A decoded text, or the URIError of a malformed percent sequence.
URIError == [ok |-> FALSE, text |-> <<>>]

\* Percent-decoding from position p on; plusIsSpace is the rule of query
\* strings.
RECURSIVE percentDecode(_, _, _, _)
percentDecode(text, p, plusIsSpace, decoded) ==
    IF p > Len(text) THEN [ok |-> TRUE, text |-> decoded]
    ELSE IF text[p] = 37
    THEN IF p + 2 > Len(text) \/ HexValue(text[p + 1]) = 16 \/ HexValue(text[p + 2]) = 16
         THEN URIError
         ELSE percentDecode(text, p + 3, plusIsSpace,
                            Append(decoded, 16 * HexValue(text[p + 1]) + HexValue(text[p + 2])))
    ELSE percentDecode(text, p + 1, plusIsSpace,
                       Append(decoded, IF plusIsSpace /\ text[p] = 43 THEN 32 ELSE text[p]))

decodeURIComponent(text) == percentDecode(text, 1, FALSE, <<>>)

\* req.query of Fastify: the value of a query parameter, decoded; a value
\* that cannot be decoded is handed over as written.
queryValue(written) ==
    LET decoded == percentDecode(written, 1, TRUE, <<>>)
    IN  IF decoded.ok THEN decoded.text ELSE written

ResolveSegment == Str(<<"r", "e", "s", "o", "l", "v", "e">>)

NoQuery == [token |-> <<>>, magnet |-> <<>>, ctx |-> <<>>]

\* StreamController.buildResolveUrl: new URL('resolve', base) with the
\* search parameters token, magnet and, if the context encodes to something,
\* ctx.
buildResolveUrlWithContext(token, magnet, context) ==
    [path |-> <<ResolveSegment>>,
     query |-> [token |-> formUrlEncode(token),
                magnet |-> formUrlEncode(magnet),
                ctx |-> formUrlEncode(encodeStreamContext(context))]]

\* buildResolveUrl of src/controllers/stream-controller.ts: token and magnet
\* as path segments, the context as ?ctx=.
buildResolveUrlOfPathForm(token, magnet, context) ==
    [path |-> <<ResolveSegment, encodeURIComponent(token), encodeURIComponent(magnet)>>,
     query |-> [NoQuery EXCEPT !.ctx = encodeStreamContext(context)]]

\* Whether the router gives a path to GET /resolve/:token/:magnet: three
\* segments, the first 'resolve', the parameters not empty.
matchesResolveRoute(path) ==
    /\ Len(path) = 3
    /\ path[1] = ResolveSegment
    /\ path[2] # <<>>
    /\ path[3] # <<>>

\* No call of processMagnetForPlayback.
NotCalled ==
    [called |-> FALSE, magnet |-> <<>>, token |-> <<>>, context |-> UndefinedValue]

\* routes.ts lines 116-141 up to the call of processMagnetForPlayback: the
\* status the handler replies with (0 while the resolver runs) and the
\* arguments of the call.
resolveHandler(url) ==
    LET token == url.path[2]
        magnetParam == url.path[3]
        ctx == queryValue(url.query.ctx)
        decodedMagnet == decodeURIComponent(magnetParam)
    IN  IF magnetParam = <<>> \/ token = <<>>
        THEN [status |-> 400, call |-> NotCalled]
        ELSE IF ~decodedMagnet.ok
        THEN [status |-> 500, call |-> NotCalled]
        ELSE [status |-> 0,
              call |-> [called |-> TRUE, magnet |-> decodedMagnet.text, token |-> token,
                        context |-> decodeStreamContext(ctx)]]

\* The router: the handler of the route the path matches, or 404 of the
\* not-found handler (no other route and no file in public/ is named
\* 'resolve').
route(url) ==
    IF matchesResolveRoute(url.path)
    THEN resolveHandler(url)
    ELSE [status |-> 404, call |-> NotCalled]

\* The router for a HEAD request: the HEAD route the framework derives from
\* the GET route runs the handler of the GET route and drops the body of its
\* reply; without it no route takes the request.
routeHead(url, exposeHeadRoutes) ==
    IF exposeHeadRoutes THEN route(url) ELSE [status |-> 404, call |-> NotCalled]

\* Credentials, magnets and contexts of emitted streams.
RoundTripTokens ==
    {Str(<<"R", "D", "T", "O", "K", "E", "N", "1">>), Str(<<"r", "d", "-", "2">>)}

RoundTripMagnets ==
    {Str(<<"m", "a", "g", "n", "e", "t", ":", "?", "x", "t", "=", "u", "r", "n", ":",
           "b", "t", "i", "h", ":", "a", "a">>),
     Str(<<"m", "a", "g", "n", "e", "t", ":", "?", "x", "t", "=", "u", "r", "n", ":",
           "b", "t", "i", "h", ":", "b", "b", "&", "d", "n", "=", "A", " ", "B">>),
     Str(<<"M", "A", "G", "N", "E", "T", ":", "?", "x", "t", "=", "u", "r", "n", ":",
           "b", "t", "i", "h", ":", "C", "C", "&", "t", "r", "=", "u", "d", "p", ":",
           "/", "/", "t", ".", "c", "o", "+", "1">>)}

RoundTripContexts ==
    {UndefinedValue} \cup
    {StreamContext(type, season, episode, UndefinedValue, UndefinedValue, year,
                   UndefinedValue) :
        type \in TypeValues, season \in {UndefinedValue, NumberValue(1)},
        episode \in {UndefinedValue, NumberValue(12)}, year \in {UndefinedValue}}
    \cup {StreamContext(UndefinedValue, InfinityValue, NumberValue(0), UndefinedValue,
                        UndefinedValue, UndefinedValue, UndefinedValue)}

IdleRoundTrip ==
    [pc |-> "idle", builtBy |-> "", token |-> <<>>, magnet |-> <<>>,
     context |-> UndefinedValue, url |-> [path |-> <<>>, query |-> NoQuery],
     method |-> "", status |-> 0, call |-> NotCalled]

\* handleStreamRequest line 68: a stream is emitted with its resolve url.
EmitStream(token, magnet, context) ==
    /\ roundTrip.pc \in {"idle", "routed"}
    /\ roundTrip' = [IdleRoundTrip EXCEPT
                        !.pc = "emitted", !.builtBy = "query",
                        !.token = token, !.magnet = magnet, !.context = context,
                        !.url = buildResolveUrlWithContext(token, magnet, context)]

\* The same with the url of the other stream-controller.ts.
EmitStreamOfPathForm(token, magnet, context) ==
    /\ roundTrip.pc \in {"idle", "routed"}
    /\ roundTrip' = [IdleRoundTrip EXCEPT
                        !.pc = "emitted", !.builtBy = "path",
                        !.token = token, !.magnet = magnet, !.context = context,
                        !.url = buildResolveUrlOfPathForm(token, magnet, context)]

\* The player requests the url of the stream.
PlayerRequestsUrl ==
    /\ roundTrip.pc = "emitted"
    /\ LET routed == route(roundTrip.url)
       IN  roundTrip' = [roundTrip EXCEPT !.pc = "routed", !.method = "GET",
                                          !.status = routed.status, !.call = routed.call]

\* The player probes the url of the stream with HEAD.  routes.ts registers
\* the resolve route with fastify.get and no route for HEAD; whether the
\* framework adds a HEAD route to a GET route is its exposeHeadRoutes option,
\* whose default differs between its versions.
PlayerProbesUrl(exposeHeadRoutes) ==
    /\ roundTrip.pc = "emitted"
    /\ LET routed == routeHead(roundTrip.url, exposeHeadRoutes)
       IN  roundTrip' = [roundTrip EXCEPT !.pc = "routed", !.method = "HEAD",
                                          !.status = routed.status, !.call = routed.call]

RoundTripIdle == roundTrip = IdleRoundTrip

RoundTripStep ==
    \/ /\ roundTrip.pc \in {"idle", "routed"}
       /\ \E token \in RoundTripTokens, magnet \in RoundTripMagnets,
             context \in RoundTripContexts : EmitStream(token, magnet, context)
    \/ /\ roundTrip.pc \in {"idle", "routed"}
       /\ \E token \in RoundTripTokens, magnet \in RoundTripMagnets,
             context \in RoundTripContexts : EmitStreamOfPathForm(token, magnet, context)
    \/ PlayerRequestsUrl
    \/ \E exposeHeadRoutes \in BOOLEAN : PlayerProbesUrl(exposeHeadRoutes)

(***************************************************************************)
(* The relevance filter: TorrentIndexerProvider.isRelevantTorrent, and     *)
(* getStreams from the parsed id on.  A text is the sequence of its        *)
(* character codes; an absent text is <<>> and an absent number NoNumber.  *)
(* A search hit carries, next to its magnet and infoHash, the members the  *)
(* filter reads: imdb, titles, year, season, episode and episodes.         *)
(***************************************************************************)
\* String.prototype.toLowerCase of a text.
textToLowerCase(s) == [i \in 1..Len(s) |-> IF s[i] \in 65..90 THEN s[i] + 32 ELSE s[i]]

\* String.prototype.includes.
includes(s, t) == \E p \in 0..(Len(s) - Len(t)) : SubSeq(s, p + 1, p + Len(t)) = t

\* imdb.match(/tt\d+/)?.[0]: the first 'tt' that digits follow, with all of
\* its digits.
matchImdb(s) ==
    LET starts == {p \in 1..(Len(s) - 2) :
                      s[p] = 116 /\ s[p + 1] = 116 /\ IsDigit(s[p + 2])}
    IN  IF starts = {} THEN <<>>
        ELSE LET p == CHOOSE a \in starts : \A b \in starts : a <= b
                 last == CHOOSE q \in (p + 2)..Len(s) :
                            /\ \A r \in (p + 2)..q : IsDigit(s[r])
                            /\ q = Len(s) \/ ~IsDigit(s[q + 1])
             IN  SubSeq(s, p, last)

\* /^tt\d+$/.test(s)
isImdbId(s) ==
    /\ Len(s) >= 3
    /\ s[1] = 116 /\ s[2] = 116
    /\ \A i \in 3..Len(s) : IsDigit(s[i])

\* extractImdb, lines 504-525; torrent.imdb is the first of the members
\* imdb, imdbId, imdb_id, Imdb and IMDB that holds a non-empty string.
extractImdb(torrent) ==
    IF torrent.imdb # <<>> /\ isImdbId(torrent.imdb)
    THEN torrent.imdb
    ELSE matchImdb(torrent.imdb)

\* sanitizeQuery, lines 1307-1325: '-', '_' and '.' become blanks, runs of
\* white space one blank, and the ends are trimmed; undefined is <<>>.
sanitizeQuery(raw) ==
    LET blank(c) == c \in {45, 95, 46, 32, 9, 10, 13}
        kept == SelectSeq([i \in 1..Len(raw) |-> i],
                          LAMBDA i : \/ ~blank(raw[i])
                                     \/ /\ \E j \in 1..(i - 1) : ~blank(raw[j])
                                        /\ \E j \in (i + 1)..Len(raw) : ~blank(raw[j])
                                        /\ ~blank(raw[i - 1]))
    IN  [k \in 1..Len(kept) |-> IF blank(raw[kept[k]]) THEN 32 ELSE raw[kept[k]]]

\* normalize('NFD') followed by the removal of the combining marks, for the
\* accented letters of the model's titles.
foldDiacritic(c) ==
    CASE c \in {225, 227, 226} -> 97
      [] c = 231 -> 99
      [] c \in {233, 234} -> 101
      [] c = 201 -> 69
      [] OTHER -> c

\* normalizeForComparison, lines 653-659.
normalizeForComparison(value) ==
    LET folded == [i \in 1..Len(value) |-> foldDiacritic(value[i])]
        alphanumeric(c) == c \in (48..57) \cup (65..90) \cup (97..122)
    IN  textToLowerCase(SelectSeq(folded, alphanumeric))

\* collectTorrentTitles, lines 527-555: the sanitized titles of a hit.
collectTorrentTitles(torrent) ==
    SelectSeq([i \in 1..Len(torrent.titles) |-> sanitizeQuery(torrent.titles[i])],
              LAMBDA t : t # <<>>)

movie == Str(<<"m", "o", "v", "i", "e">>)

\* The filter with the title test ahead of the identifier test.
isRelevantTorrentByTitleFirst(torrent, context) ==
    LET torrentTitles == collectTorrentTitles(torrent)
        matchesTitle ==
            \E a \in 1..Len(torrentTitles), b \in 1..Len(context.targetTitles) :
                LET torrentTitle == normalizeForComparison(torrentTitles[a])
                    targetTitle == normalizeForComparison(context.targetTitles[b])
                IN  includes(torrentTitle, targetTitle) \/ includes(targetTitle, torrentTitle)
    IN  IF Len(context.targetTitles) > 0 /\ Len(torrentTitles) > 0 /\ ~matchesTitle
        THEN FALSE
        ELSE IF context.parsed.imdbId # <<>> /\ extractImdb(torrent) # <<>>
        THEN textToLowerCase(extractImdb(torrent)) = textToLowerCase(context.parsed.imdbId)
        ELSE TRUE

\* The filter without the test of the bundled-episode list of lines 494-497.
isRelevantTorrentBySingleEpisode(torrent, context) ==
    LET parsed == context.parsed
        imdb == extractImdb(torrent)
        torrentTitles == collectTorrentTitles(torrent)
        matchesTitle ==
            \E a \in 1..Len(torrentTitles), b \in 1..Len(context.targetTitles) :
                LET torrentTitle == normalizeForComparison(torrentTitles[a])
                    targetTitle == normalizeForComparison(context.targetTitles[b])
                IN  includes(torrentTitle, targetTitle) \/ includes(targetTitle, torrentTitle)
        isMovie == textToLowerCase(context.type) = movie
    IN  IF parsed.imdbId # <<>> /\ imdb # <<>>
        THEN textToLowerCase(imdb) = textToLowerCase(parsed.imdbId)
        ELSE IF Len(context.targetTitles) > 0 /\ Len(torrentTitles) > 0 /\ ~matchesTitle
        THEN FALSE
        ELSE IF /\ isMovie /\ context.releaseYear # NoNumber
                /\ torrent.year # NoNumber
                /\ (torrent.year - context.releaseYear > 1
                      \/ context.releaseYear - torrent.year > 1)
        THEN FALSE
        ELSE IF ~isMovie /\ parsed.season # NoNumber
        THEN IF torrent.season # NoNumber /\ torrent.season # parsed.season
             THEN FALSE
             ELSE IF parsed.episode # NoNumber
             THEN ~(torrent.episode # NoNumber /\ torrent.episode # parsed.episode)
             ELSE TRUE
        ELSE TRUE

\* isRelevantTorrent, lines 453-502.
isRelevantTorrent(torrent, context) ==
    LET parsed == context.parsed
        imdb == extractImdb(torrent)
        torrentTitles == collectTorrentTitles(torrent)
        matchesTitle ==
            \E a \in 1..Len(torrentTitles), b \in 1..Len(context.targetTitles) :
                LET torrentTitle == normalizeForComparison(torrentTitles[a])
                    targetTitle == normalizeForComparison(context.targetTitles[b])
                IN  includes(torrentTitle, targetTitle) \/ includes(targetTitle, torrentTitle)
        isMovie == textToLowerCase(context.type) = movie
    IN  IF parsed.imdbId # <<>> /\ imdb # <<>>
        THEN textToLowerCase(imdb) = textToLowerCase(parsed.imdbId)
        ELSE IF Len(context.targetTitles) > 0 /\ Len(torrentTitles) > 0 /\ ~matchesTitle
        THEN FALSE
        ELSE IF /\ isMovie /\ context.releaseYear # NoNumber
                /\ torrent.year # NoNumber
                /\ (torrent.year - context.releaseYear > 1
                      \/ context.releaseYear - torrent.year > 1)
        THEN FALSE
        ELSE IF ~isMovie /\ parsed.season # NoNumber
        THEN IF torrent.season # NoNumber /\ torrent.season # parsed.season
             THEN FALSE
             ELSE IF parsed.episode # NoNumber
             THEN IF torrent.episode # NoNumber /\ torrent.episode # parsed.episode
                  THEN FALSE
                  ELSE IF Len(torrent.episodes) > 0
                            /\ parsed.episode \notin Range(torrent.episodes)
                  THEN FALSE
                  ELSE TRUE
             ELSE TRUE
        ELSE TRUE

\* parseId, lines 357-389, after the split at ':': rawId is parts[0], season
\* and episode are Number(parts[1]) and Number(parts[2]), NoNumber if the
\* part is missing or not a number.
parseId(rawId, season, episode) ==
    [imdbId |-> IF isImdbId(rawId) THEN rawId ELSE <<>>,
     query |-> IF isImdbId(rawId) THEN <<>> ELSE sanitizeQuery(rawId),
     season |-> season,
     episode |-> episode]

\* Lines 140-144: the titles of the Cinemeta record, then the free-text query.
displayTitles(metaTitles, parsed) ==
    IF parsed.query # <<>> /\ parsed.query \notin Range(metaTitles)
    THEN Append(metaTitles, parsed.query)
    ELSE metaTitles

\* buildTextQuery, lines 412-451: undefined (<<>>) without a title and a
\* query; the year, season and episode words that follow the title in the
\* search text are left out.
buildTextQuery(parsed, targetTitle) ==
    IF targetTitle = <<>> /\ parsed.query # <<>> THEN parsed.query
    ELSE targetTitle

\* Lines 153-162: the queries getStreams sends.
buildQueries(parsed, titles) ==
    LET imdbQuery == parsed.imdbId
        textQuery == buildTextQuery(parsed, IF Len(titles) > 0 THEN titles[1] ELSE <<>>)
    IN  (IF imdbQuery # <<>> THEN <<imdbQuery>> ELSE <<>>)
          \o (IF textQuery # <<>> /\ textQuery # imdbQuery THEN <<textQuery>> ELSE <<>>)

\* Lines 168-178.
MatchContext(parsed, type, targetTitles, releaseYear) ==
    [parsed |-> parsed, type |-> type, targetTitles |-> targetTitles,
     releaseYear |-> releaseYear]

\* A search hit of the indexer.
Hit(imdb, titles, year, season, episode, episodes, hash) ==
    [relevant |-> FALSE, magnet |-> Uri("magnet:", hash), infoHash |-> EmptyString,
     imdb |-> imdb, titles |-> titles, year |-> year, season |-> season,
     episode |-> episode, episodes |-> episodes]

tt1234567 == Str(<<"t", "t", "1", "2", "3", "4", "5", "6", "7">>)

tt7654321 == Str(<<"t", "t", "7", "6", "5", "4", "3", "2", "1">>)

\* 'O Filme' and 'Série.Outra'
OFilme == Str(<<"O", " ", "F", "i", "l", "m", "e">>)

SerieOutra == Str(<<"S">>) \o <<233>> \o Str(<<"r", "i", "e", ".", "O", "u", "t", "r", "a">>)

\* The hits of the model: with the identifier of the request, with it inside
\* a URL, with another identifier, with a longer one, with an upper-case one,
\* and without any; each with signals that suit the request or do not.
MatchingButUnlike == Hit(tt1234567, <<SerieOutra>>, 1990, 9, 9, <<7, 8>>, Lo(1))

MatchingInUrl ==
    Hit(Str(<<"i", "m", "d", "b", ".", "c", "o", "m", "/">>) \o tt1234567 \o <<47>>,
        <<OFilme>>, 2020, 2, 5, <<>>, Lo(2))

OtherButAlike == Hit(tt7654321, <<OFilme>>, 2020, 2, 5, <<5>>, Lo(3))

LongerIdentifier == Hit(tt1234567 \o <<56>>, <<OFilme>>, NoNumber, NoNumber, NoNumber, <<>>, Lo(4))

UpperCaseIdentifier ==
    Hit(Str(<<"T", "T", "1", "2", "3", "4", "5", "6", "7">>), <<SerieOutra>>,
        NoNumber, NoNumber, NoNumber, <<>>, Lo(5))

UnidentifiedAlike ==
    Hit(<<>>, <<Str(<<"o", "_", "f", "i", "l", "m", "e", ".", "2", "0", "2", "0">>)>>,
        2021, 2, NoNumber, <<4, 5>>, Lo(6))

UnidentifiedUnlike == Hit(<<>>, <<SerieOutra>>, 2020, 2, 5, <<>>, Lo(7))

UnidentifiedOtherEpisode == Hit(<<>>, <<OFilme>>, 2023, 3, 6, <<6>>, Lo(8))

Untitled == Hit(<<>>, <<Str(<<"-", ".", "_">>)>>, NoNumber, NoNumber, NoNumber, <<>>, Lo(9))

\* A bundle of the episodes 6 and 7 of season 2, with no episode of its own.
UnidentifiedOtherBundle == Hit(<<>>, <<OFilme>>, NoNumber, 2, NoNumber, <<6, 7>>, Lo(10))

\* What fetchSearchResults may return for a query of the requests below.
HitLists ==
    { <<>>,
      <<MatchingButUnlike, OtherButAlike>>,
      <<OtherButAlike, MatchingInUrl, LongerIdentifier>>,
      <<UnidentifiedAlike, MatchingButUnlike>>,
      <<UnidentifiedUnlike, UnidentifiedOtherEpisode, UpperCaseIdentifier>>,
      <<Untitled, OtherButAlike, UnidentifiedAlike>>,
      <<MatchingInUrl, UnidentifiedUnlike>>,
      <<UnidentifiedOtherBundle, Untitled>> }

\* The requests: type, parts[0] of the id, season, episode, the titles and
\* the year of the Cinemeta record.
Requests ==
    { [type |-> type, rawId |-> rawId, season |-> se[1], episode |-> se[2],
       metaTitles |-> metaTitles, releaseYear |-> releaseYear] :
        type \in {movie, Str(<<"s", "e", "r", "i", "e", "s">>)},
        rawId \in {tt1234567, Str(<<"o", ".", "f", "i", "l", "m", "e">>), <<>>},
        se \in {<<NoNumber, NoNumber>>, <<2, NoNumber>>, <<2, 5>>},
        metaTitles \in {<<>>, <<OFilme>>},
        releaseYear \in {NoNumber, 2020} }

\* Lines 133-182: getStreams is called; the id is parsed, the Cinemeta
\* record read and the first query sent.
getStreamsOfRequest(request, token) ==
    /\ discovery.pc \in {"idle", "done", "thrown"}
    /\ LET parsed == parseId(request.rawId, request.season, request.episode)
           titles == displayTitles(request.metaTitles, parsed)
           queries == buildQueries(parsed, titles)
       IN  discovery' =
             [IdleDiscovery EXCEPT
                 !.pc = IF Len(queries) = 0 THEN "done" ELSE "awaitSearch",
                 !.queries = Len(queries), !.token = token,
                 !.context = MatchContext(parsed, request.type, titles,
                                          request.releaseYear)]

\* Lines 184-217: the hits of a query arrive and pass the filter.
SearchReturnsHits(hits) ==
    SearchReturns([n \in 1..Len(hits) |->
                      [hits[n] EXCEPT
                          !.relevant = isRelevantTorrent(hits[n], discovery.context)]])

RelevanceStep ==
    \/ /\ discovery.pc \in {"idle", "done"}
       /\ \E request \in Requests, token \in Tokens : getStreamsOfRequest(request, token)
    \/ /\ discovery.pc = "awaitSearch"
       /\ \E hits \in HitLists : SearchReturnsHits(hits)
    \/ \E cachedHashes \in SUBSET ReportedHashes : DecorateLookupReturns(cachedHashes)
    \/ DecorateLookupThrows

(***************************************************************************)
(* The failure policy of discovery: getStreams with the answers of the     *)
(* Cinemeta lookup and of the searches as they come from the network.  An  *)
(* answer is a failed request or a response with a status code and a body  *)
(* that is JSON or not; an entry of a result list is an object (a hit),    *)
(* null or a number.                                                       *)
(***************************************************************************)
\* What an entry that is not an object yields for every member that is read.
BlankHit ==
    [Hit(<<>>, <<>>, NoNumber, NoNumber, NoNumber, <<>>, EmptyString) EXCEPT !.magnet = Absent]

ObjectEntry(hit) == [kind |-> "object", hit |-> hit]

NullEntry == [kind |-> "null", hit |-> BlankHit]

NumberEntry == [kind |-> "number", hit |-> BlankHit]

\* A parsed body: null, a text, an array, an object with an array under one
\* of the keys results, data, items, torrents, entries, an object with a
\* truthy member torrent, or an object with none of these.
JsonPayload(shape, entries) == [shape |-> shape, entries |-> entries]

RequestFailed == [failed |-> TRUE, statusCode |-> 0, json |-> FALSE,
                  payload |-> JsonPayload("null", <<>>)]

Response(statusCode, json, payload) ==
    [failed |-> FALSE, statusCode |-> statusCode, json |-> json, payload |-> payload]

\* normalizeTorrentPayload, lines 1280-1305.
normalizeTorrentPayload(payload) ==
    IF payload.shape = "null" THEN <<>>
    ELSE IF payload.shape = "array" THEN payload.entries
    ELSE IF payload.shape = "results" THEN payload.entries
    ELSE IF payload.shape = "torrent" THEN <<payload.entries[1]>>
    ELSE <<>>

\* fetchSearchResults, lines 340-355: whatever fails inside the try block
\* leaves an empty list.
fetchSearchResults(answer) ==
    IF answer.failed THEN <<>>
    ELSE IF answer.statusCode >= 400 THEN <<>>
    ELSE IF ~answer.json THEN <<>>
    ELSE normalizeTorrentPayload(answer.payload)

\* fetchCinemetaMeta, lines 391-410: the titles and the year of the record,
\* nothing if the lookup fails.
fetchCinemetaMeta(answer, request) ==
    IF answer.failed \/ answer.statusCode >= 400 \/ ~answer.json
          \/ answer.payload.shape \in {"null", "text"}
    THEN [request EXCEPT !.metaTitles = <<>>, !.releaseYear = NoNumber]
    ELSE request

\* Answers of the Cinemeta lookup.
MetaAnswers ==
    {RequestFailed, Response(404, TRUE, JsonPayload("object", <<>>)),
     Response(200, FALSE, JsonPayload("null", <<>>)),
     Response(200, TRUE, JsonPayload("object", <<>>))}

\* Answers of a search that leave no result.
FailedAnswers ==
    {RequestFailed,
     Response(500, TRUE, JsonPayload("array", <<ObjectEntry(MatchingInUrl)>>)),
     Response(200, FALSE, JsonPayload("null", <<>>)),
     Response(200, TRUE, JsonPayload("null", <<>>)),
     Response(200, TRUE, JsonPayload("text", <<>>)),
     Response(200, TRUE, JsonPayload("object", <<>>))}

\* Answers of a search.
SearchAnswers ==
    FailedAnswers \cup
    {Response(200, TRUE, JsonPayload("array", <<ObjectEntry(MatchingInUrl)>>)),
     Response(200, TRUE, JsonPayload("results",
                                     <<ObjectEntry(UnidentifiedAlike),
                                       ObjectEntry(MatchingButUnlike)>>)),
     Response(200, TRUE, JsonPayload("torrent", <<ObjectEntry(UpperCaseIdentifier)>>)),
     Response(200, TRUE, JsonPayload("torrent", <<NumberEntry>>)),
     Response(200, TRUE, JsonPayload("array", <<NumberEntry, ObjectEntry(MatchingInUrl)>>)),
     Response(200, TRUE, JsonPayload("array", <<NullEntry>>)),
     Response(200, TRUE, JsonPayload("results", <<ObjectEntry(UnidentifiedAlike), NullEntry,
                                                  ObjectEntry(MatchingInUrl)>>))}

\* The position of the first null entry of a list, one past its end if it
\* has none.
firstNull(torrents) ==
    IF \E n \in 1..Len(torrents) : torrents[n].kind = "null"
    THEN CHOOSE n \in 1..Len(torrents) :
            /\ torrents[n].kind = "null"
            /\ \A k \in 1..(n - 1) : torrents[k].kind # "null"
    ELSE Len(torrents) + 1

\* Lines 133-182 with the answer of Cinemeta.
getStreamsWithMeta(request, metaAnswer, token) ==
    getStreamsOfRequest(fetchCinemetaMeta(metaAnswer, request), token)

\* Lines 184-208 with the answer of the search.  isRelevantTorrent reads
\* record.imdb of the entry first (extractImdb, line 506), which is a
\* TypeError for null; nothing in getStreams catches it.  The loop leaves at
\* MAX_STREAMS streams and does not see the entries after that.
SearchAnswered(answer) ==
    /\ discovery.pc = "awaitSearch"
    /\ LET torrents == fetchSearchResults(answer)
           seenEntries == SubSeq(torrents, 1, firstNull(torrents) - 1)
           hits == [n \in 1..Len(seenEntries) |-> seenEntries[n].hit]
           found == collectStreams([streams |-> discovery.streams,
                                    seen |-> discovery.seen, full |-> FALSE],
                                   [n \in 1..Len(hits) |->
                                       [hits[n] EXCEPT !.relevant =
                                           isRelevantTorrent(hits[n], discovery.context)]],
                                   Len(discovery.results) + 1, 1)
       IN  IF firstNull(torrents) <= Len(torrents) /\ ~found.full
           THEN discovery' = [discovery EXCEPT !.pc = "thrown", !.streams = <<>>]
           ELSE SearchReturnsHits(hits)

FailureStep ==
    \/ /\ discovery.pc \in {"idle", "done", "thrown"}
       /\ \E request \in Requests, metaAnswer \in MetaAnswers, token \in Tokens :
             getStreamsWithMeta(request, metaAnswer, token)
    \/ /\ discovery.pc = "awaitSearch"
       /\ \E answer \in SearchAnswers : SearchAnswered(answer)
    \/ \E cachedHashes \in SUBSET ReportedHashes : DecorateLookupReturns(cachedHashes)
    \/ DecorateLookupThrows

(***************************************************************************)
(* Best-file selection: RealDebridService.selectBestFile, called by        *)
(* processMagnetToDirectUrl with the files of the torrent and the context  *)
(* of the resolve request.  A file is [path, bytes]; a context holds       *)
(* NoNumber or <<>> for the members that are not populated.  A score is    *)
(* points + log10(bytes + 1), kept as the pair [points, bytes].            *)
(***************************************************************************)
File(path, bytes) == [path |-> path, bytes |-> bytes]

\* String.prototype.endsWith.
endsWith(s, t) == Len(t) <= Len(s) /\ SubSeq(s, Len(s) - Len(t) + 1, Len(s)) = t

VideoExtensions ==
    {Str(<<".", "m", "p", "4">>), Str(<<".", "m", "k", "v">>), Str(<<".", "m", "o", "v">>),
     Str(<<".", "a", "v", "i">>), Str(<<".", "t", "s">>), Str(<<".", "m", "4", "v">>),
     Str(<<".", "w", "m", "v">>), Str(<<".", "f", "l", "v">>),
     Str(<<".", "w", "e", "b", "m">>)}

\* isVideoFile, lines 450-452.
isVideoFile(path) == \E ext \in VideoExtensions : endsWith(textToLowerCase(path), ext)

\* normalize, lines 454-464.
normalize(value) == normalizeForComparison(value)

\* String(n).padStart(2, '0'): one digit gets a zero in front.
padStart2(n) == IF n \in 0..9 THEN <<48>> \o numberToString(n) ELSE numberToString(n)

\* `${n}` or its padStart(2, '0').
numberText(n, padded) == IF padded THEN padStart2(n) ELSE numberToString(n)

\* Lines 408-418: the words put in front of the episode, and whether the
\* episode is padded.
EpisodeForms ==
    <<[word |-> Str(<<"e">>), padded |-> FALSE],
      [word |-> Str(<<"e", "p">>), padded |-> FALSE],
      [word |-> Str(<<"e", "p", "i", "s", "o", "d", "e">>), padded |-> FALSE],
      [word |-> Str(<<"e", "p", "i", "s", "o", "d", "i", "o">>), padded |-> FALSE],
      [word |-> Str(<<"c", "a", "p", "i", "t", "u", "l", "o">>), padded |-> FALSE],
      [word |-> Str(<<"p", "a", "r", "t">>), padded |-> FALSE],
      [word |-> Str(<<"e">>), padded |-> TRUE],
      [word |-> Str(<<"e", "p">>), padded |-> TRUE],
      [word |-> Str(<<"e", "p", "i", "s", "o", "d", "e">>), padded |-> TRUE],
      [word |-> Str(<<"e", "p", "i", "s", "o", "d", "i", "o">>), padded |-> TRUE]>>

SeasonForm(before, paddedSeason, between, paddedEpisode) ==
    [before |-> before, paddedSeason |-> paddedSeason, between |-> between,
     paddedEpisode |-> paddedEpisode]

\* Lines 420-431: the words around season and episode, and which of the two
\* is padded.
SeasonForms ==
    <<SeasonForm(Str(<<"s">>), FALSE, Str(<<"e">>), FALSE),
      SeasonForm(Str(<<"s">>), FALSE, Str(<<"e">>), TRUE),
      SeasonForm(Str(<<"s">>), TRUE, Str(<<"e">>), TRUE),
      SeasonForm(Str(<<"s">>), TRUE, Str(<<"e">>), FALSE),
      SeasonForm(Str(<<"s", "e", "a", "s", "o", "n">>), FALSE,
                 Str(<<"e", "p", "i", "s", "o", "d", "e">>), FALSE),
      SeasonForm(Str(<<"s", "e", "a", "s", "o", "n">>), TRUE,
                 Str(<<"e", "p", "i", "s", "o", "d", "e">>), TRUE),
      SeasonForm(<<>>, FALSE, Str(<<"x">>), FALSE),
      SeasonForm(<<>>, FALSE, Str(<<"x">>), TRUE),
      SeasonForm(<<>>, TRUE, Str(<<"x">>), TRUE)>>

\* Lines 408-432: the tokens of an episode.
episodeTokens(context) ==
    [n \in 1..Len(EpisodeForms) |->
        EpisodeForms[n].word \o numberText(context.episode, EpisodeForms[n].padded)]
    \o (IF context.season = NoNumber THEN <<>>
        ELSE [n \in 1..Len(SeasonForms) |->
                 SeasonForms[n].before
                   \o numberText(context.season, SeasonForms[n].paddedSeason)
                   \o SeasonForms[n].between
                   \o numberText(context.episode, SeasonForms[n].paddedEpisode)])

\* normalized && path.includes(normalized)
includesText(path, normalized) == normalized # <<>> /\ includes(path, normalized)

\* Lines 434-441: the positions of the tokens the path holds.
matchedTokens(path, context) ==
    IF context.episode = NoNumber THEN {}
    ELSE {n \in DOMAIN episodeTokens(context) :
             includesText(path, normalize(episodeTokens(context)[n]))}

\* token.length >= 4, of the token at position n.
isLongToken(context, n) == Len(normalize(episodeTokens(context)[n])) >= 4

\* scoreEpisodeMatch, lines 399-448.
scoreEpisodeMatch(path, context) ==
    IF context.episode = NoNumber THEN 0
    ELSE 10 * Cardinality({n \in matchedTokens(path, context) : isLongToken(context, n)})
           + 6 * Cardinality({n \in matchedTokens(path, context) :
                                 ~isLongToken(context, n)})
           + (IF context.episode \in Range(context.episodeList) THEN 2 ELSE 0)

\* Lines 367-390, on the normalized path.
scorePath(normalizedPath, context) ==
    IF normalizedPath = <<>> THEN 0
    ELSE (IF context.year \notin {NoNumber, 0}
               /\ includes(normalizedPath, numberToString(context.year))
          THEN 4 ELSE 0)
       + (IF includesText(normalizedPath, normalize(context.title)) THEN 6 ELSE 0)
       + (IF includesText(normalizedPath, normalize(context.episodeTitle)) THEN 8 ELSE 0)
       + scoreEpisodeMatch(normalizedPath, context)

\* scoreFileAgainstContext, lines 359-397: the points; a score of 0 points
\* is 0, any other is points + log10(bytes + 1).
scoreFileAgainstContext(file, context) == scorePath(normalize(file.path), context)

Pow10(d) == CASE d = 0 -> 1 [] d = 1 -> 10 [] d = 2 -> 100 [] d = 3 -> 1000
              [] d = 4 -> 10000 [] d = 5 -> 100000 [] d = 6 -> 1000000
              [] d = 7 -> 10000000 [] d = 8 -> 100000000 [] OTHER -> 1000000000

\* a.points + log10(a.bytes + 1) < b.points + log10(b.bytes + 1), that is
\* (a.bytes + 1) * 10^a.points < (b.bytes + 1) * 10^b.points, for sizes
\* below 2^31.
scoreLess(a, b) ==
    LET d == b.points - a.points
    IN  IF d >= 10 THEN TRUE
        ELSE IF d >= 0 THEN b.bytes + 1 > (a.bytes + 1) \div Pow10(d)
        ELSE IF d <= 0 - 10 THEN FALSE
        ELSE a.bytes + 1 <= (b.bytes \div Pow10(0 - d))

\* Lines 349-354: whether the comparator puts entry a ahead of entry b.
sortsAhead(a, b) ==
    IF scoreLess(a, b) \/ scoreLess(b, a)
    THEN scoreLess(b, a)
    ELSE a.bytes > b.bytes

\* A context with the given members.
FileContext(season, episode, title, year, episodeTitle, episodeList) ==
    [defined |-> TRUE, season |-> season, episode |-> episode, title |-> title,
     year |-> year, episodeTitle |-> episodeTitle, episodeList |-> episodeList]

\* No context: the resolve request had no ctx parameter that could be decoded.
NoFileContext ==
    [FileContext(NoNumber, NoNumber, <<>>, NoNumber, <<>>, <<>>) EXCEPT !.defined = FALSE]

Extras == Str(<<"E", "x", "t", "r", "a", "s">>)

\* The contexts of a resolve request: none, {season: 2, episode: 5}, one
\* member of the two only, and the two with further members.
FileContexts ==
    {NoFileContext,
     FileContext(2, 5, <<>>, NoNumber, <<>>, <<>>),
     FileContext(NoNumber, 5, <<>>, NoNumber, <<>>, <<>>),
     FileContext(2, NoNumber, <<>>, NoNumber, <<>>, <<>>),
     FileContext(12, 0, <<>>, NoNumber, <<>>, <<>>),
     FileContext(2, 5, Extras, 2020, <<>>, <<5>>)}

\* The files of a torrent: paths of an episode with sizes of 2 GB and
\* 200 MB, of another episode, of another naming, a text file and a small
\* file of release notes.
TorrentFiles ==
    {File(Str(<<"S", "h", "o", "w", ".", "S", "0", "2", "E", "0", "5", ".", "m", "k", "v">>),
          2000000000),
     File(Str(<<"S", "h", "o", "w", ".", "S", "0", "2", "E", "0", "5", ".">>) \o Extras
            \o Str(<<".", "m", "k", "v">>), 200000000),
     File(Str(<<"s", "h", "o", "w", ".", "s", "0", "2", "e", "0", "5", ".", "M", "K", "V">>),
          2000000000),
     File(Str(<<"S", "h", "o", "w", ".", "S", "0", "2", "E", "0", "6", ".", "m", "k", "v">>),
          2100000000),
     File(Str(<<"2", "x", "0", "5", " ", "e", "p", "5", ".", "a", "v", "i">>), 0),
     File(Str(<<"S", "1", "2", "E", "0", "0", ".", "m", "p", "4">>), 999),
     File(Str(<<"r", "e", "a", "d", "m", "e", ".", "t", "x", "t">>), 2147483000),
     File(Str(<<"a", ".", "n", "f", "o">>), 5)}

\* The filter of line 348 alone: the first file with a score.
findFirstContextualMatch(files, videoFiles, context) ==
    IF ~context.defined THEN 0
    ELSE LET scored == SelectSeq(videoFiles,
                           LAMBDA n : scoreFileAgainstContext(files[n], context) > 0)
         IN  IF scored = <<>> THEN 0 ELSE scored[1]

\* findContextualMatch, lines 338-357, on the positions videoFiles of files:
\* the head of the stable sort, 0 for undefined.
findContextualMatch(files, videoFiles, context) ==
    IF ~context.defined THEN 0
    ELSE LET entry(n) == [points |-> scoreFileAgainstContext(files[n], context),
                          bytes |-> files[n].bytes]
             scored == SelectSeq(videoFiles, LAMBDA n : entry(n).points > 0)
         IN  IF scored = <<>> THEN 0
             ELSE scored[CHOOSE k \in 1..Len(scored) :
                            /\ \A j \in 1..(k - 1) : sortsAhead(entry(scored[k]), entry(scored[j]))
                            /\ \A j \in (k + 1)..Len(scored) :
                                  ~sortsAhead(entry(scored[j]), entry(scored[k]))]

\* The largest file of the whole list where no file is a video file.
selectLargestWithoutVideo(files, context) ==
    LET videoFiles == SelectSeq([n \in 1..Len(files) |-> n],
                                LAMBDA n : isVideoFile(files[n].path))
        candidates == IF videoFiles = <<>> THEN [n \in 1..Len(files) |-> n] ELSE videoFiles
        contextualMatch == findContextualMatch(files, videoFiles, context)
    IN  IF contextualMatch # 0 THEN contextualMatch
        ELSE candidates[CHOOSE k \in 1..Len(candidates) :
                           /\ \A j \in 1..(k - 1) :
                                 files[candidates[k]].bytes > files[candidates[j]].bytes
                           /\ \A j \in (k + 1)..Len(candidates) :
                                 files[candidates[j]].bytes <= files[candidates[k]].bytes]

\* selectBestFile, lines 321-336: the position of the file chosen.
selectBestFile(files, context) ==
    LET videoFiles == SelectSeq([n \in 1..Len(files) |-> n],
                                LAMBDA n : isVideoFile(files[n].path))
        contextualMatch == findContextualMatch(files, videoFiles, context)
    IN  IF videoFiles = <<>> THEN 1
        ELSE IF contextualMatch # 0 THEN contextualMatch
        ELSE videoFiles[CHOOSE k \in 1..Len(videoFiles) :
                           /\ \A j \in 1..(k - 1) :
                                 files[videoFiles[k]].bytes > files[videoFiles[j]].bytes
                           /\ \A j \in (k + 1)..Len(videoFiles) :
                                 files[videoFiles[j]].bytes <= files[videoFiles[k]].bytes]

\* The lists of one to n files.
RECURSIVE FileLists(_)
FileLists(n) ==
    IF n = 0 THEN {}
    ELSE FileLists(n - 1)
           \cup {<<f>> : f \in TorrentFiles}
           \cup {Append(s, f) : s \in {t \in FileLists(n - 1) : Len(t) = n - 1},
                                f \in TorrentFiles}

IdleSelection == [pc |-> "idle", files |-> <<>>, context |-> NoFileContext, selected |-> 0]

\* processMagnetToDirectUrl line 272: the best file of a torrent's files.
SelectBestFile(files, context) ==
    /\ selection.pc = "idle"
    /\ selection' = [pc |-> "selected", files |-> files, context |-> context,
                     selected |-> selectBestFile(files, context)]

SelectionIdle == selection = IdleSelection

SelectionStep ==
    /\ selection.pc = "idle"
    /\ \E files \in FileLists(MaxFiles), context \in FileContexts :
          SelectBestFile(files, context)

(***************************************************************************)
(* Credential extraction: StreamService.extractRealDebridToken, as the     *)
(* routes and handleStreamRequest call it.  A member that is undefined is  *)
(* the empty string: both are falsy and nothing else is asked of them.     *)
(***************************************************************************)
\* Texts a request may carry where a token is looked for: nothing, texts of
\* 20 and of 21 characters and a longer one.
TokenTexts ==
    {"", "RDTOKEN-OF-20-CHARS-", "RDTOKEN-OF-21-CHARS--", "RDTOKEN-OF-MORE-THAN-21-CHARS"}

Query(realdebridToken, rdToken, token) ==
    [realdebridToken |-> realdebridToken, rdToken |-> rdToken, token |-> token]

NoTokenQuery == Query("", "", "")

Extra(realdebridToken, token) == [realdebridToken |-> realdebridToken, token |-> token]

NoExtra == Extra("", "")

\* A length check that lets a text of 20 characters pass.
hasTokenLengthFrom20(token) == Truthy(token) /\ Len(token) >= 20

\* Line 114: token && token.length > 20.
hasTokenLength(token) == Truthy(token) /\ Len(token) > 20

\* Lines 104-111: the chain of ||, which yields its first truthy operand and
\* its last operand if none is truthy.
firstTruthy(candidates) ==
    IF \E n \in 1..Len(candidates) : Truthy(candidates[n])
    THEN candidates[CHOOSE n \in 1..Len(candidates) :
                        /\ Truthy(candidates[n])
                        /\ \A k \in 1..(n - 1) : ~Truthy(candidates[k])]
    ELSE ""

\* Lines 98-116; undefined is "".
extractRealDebridTokenOf(query, xRdToken, extra, paramsToken) ==
    LET token == firstTruthy(<<query.realdebridToken, query.rdToken, query.token, xRdToken,
                               extra.realdebridToken, extra.token, paramsToken>>)
    IN  IF hasTokenLength(token) THEN token ELSE ""

IdleCredential ==
    [pc |-> "idle", query |-> NoTokenQuery, xRdToken |-> "", extra |-> NoExtra,
     paramsToken |-> "", returned |-> ""]

Extracted(query, xRdToken, extra, paramsToken) ==
    [pc |-> "extracted", query |-> query, xRdToken |-> xRdToken, extra |-> extra,
     paramsToken |-> paramsToken,
     returned |-> extractRealDebridTokenOf(query, xRdToken, extra, paramsToken)]

\* routes.ts lines 50-52, 69-71 and 81-84: /manifest.json, /configure and
\* /stream/:type/:id.json read the token from the query and the headers.
RouteWithoutToken(query, xRdToken) ==
    /\ credential.pc = "idle"
    /\ credential' = Extracted(query, xRdToken, NoExtra, "")

\* routes.ts lines 99-102: /:token/stream/:type/:id.json passes an empty
\* extra and the token of the path.
RouteWithToken(query, xRdToken, token) ==
    /\ credential.pc = "idle"
    /\ credential' = Extracted(query, xRdToken, NoExtra, token)

\* handleStreamRequest lines 37-43: an empty query, no headers, the extra of
\* the request and REALDEBRID_TOKEN in the place of the path token.
ControllerExtracts(extra, envToken) ==
    /\ credential.pc = "idle"
    /\ credential' = Extracted(NoTokenQuery, "", extra, envToken)

\* The caller goes on with the value.
TokenUsed ==
    /\ credential.pc = "extracted"
    /\ credential' = IdleCredential

CredentialIdle == credential = IdleCredential

CredentialStep ==
    \/ /\ credential.pc = "idle"
       /\ \E realdebridToken \in TokenTexts, rdToken \in TokenTexts, token \in TokenTexts,
             xRdToken \in TokenTexts :
             RouteWithoutToken(Query(realdebridToken, rdToken, token), xRdToken)
    \/ /\ credential.pc = "idle"
       /\ \E realdebridToken \in TokenTexts, rdToken \in TokenTexts, token \in TokenTexts,
             xRdToken \in TokenTexts, pathToken \in TokenTexts :
             RouteWithToken(Query(realdebridToken, rdToken, token), xRdToken, pathToken)
    \/ /\ credential.pc = "idle"
       /\ \E realdebridToken \in TokenTexts, token \in TokenTexts, envToken \in TokenTexts :
             ControllerExtracts(Extra(realdebridToken, token), envToken)
    \/ TokenUsed

(***************************************************************************)
(* The specifications.                                                     *)
(***************************************************************************)
Init ==
    CacheIdle /\ PlaybackIdle /\ ListingIdle /\ DiscoveryIdle /\ CodecIdle /\ SelectionIdle
    /\ RoundTripIdle /\ CredentialIdle

NextCache ==
    CacheStep /\ UNCHANGED <<playback, listing, discovery, codec, selection, roundTrip, credential>>

SpecCache == Init /\ [][NextCache]_vars

NextResolve == PlaybackStep /\ UNCHANGED <<cacheVars, listing, discovery, codec, selection, roundTrip, credential>>

SpecResolve == Init /\ [][NextResolve]_vars

NextListing == ListingStep /\ UNCHANGED <<cacheVars, playback, discovery, codec, selection, roundTrip, credential>>

SpecListing == Init /\ [][NextListing]_vars

NextDiscovery == DiscoveryStep /\ UNCHANGED <<cacheVars, playback, listing, codec, selection, roundTrip, credential>>

SpecDiscovery == Init /\ [][NextDiscovery]_vars

NextContext == CodecStep /\ UNCHANGED <<cacheVars, playback, listing, discovery, selection, roundTrip, credential>>

SpecContext == Init /\ [][NextContext]_vars

NextRelevance == RelevanceStep /\ UNCHANGED <<cacheVars, playback, listing, codec, selection, roundTrip, credential>>

SpecRelevance == Init /\ [][NextRelevance]_vars

NextSelection ==
    SelectionStep /\ UNCHANGED <<cacheVars, playback, listing, discovery, codec, roundTrip,
                               credential>>

SpecSelection == Init /\ [][NextSelection]_vars

NextRoundTrip ==
    RoundTripStep /\ UNCHANGED <<cacheVars, playback, listing, discovery, codec, selection,
                               credential>>

SpecRoundTrip == Init /\ [][NextRoundTrip]_vars

NextCredential ==
    CredentialStep /\ UNCHANGED <<cacheVars, playback, listing, discovery, codec, selection,
                                  roundTrip>>

SpecCredential == Init /\ [][NextCredential]_vars

NextChunks ==
    ChunkStep /\ UNCHANGED <<playback, listing, discovery, codec, selection, roundTrip,
                             credential>>

SpecChunks == Init /\ [][NextChunks]_vars

InitConcurrent ==
    ConcurrentIdle /\ PlaybackIdle /\ ListingIdle /\ DiscoveryIdle /\ CodecIdle
    /\ SelectionIdle /\ RoundTripIdle /\ CredentialIdle

NextConcurrent ==
    ConcurrentStep /\ UNCHANGED <<playback, listing, discovery, codec, selection, roundTrip,
                                  credential>>

SpecConcurrent == InitConcurrent /\ [][NextConcurrent]_vars

NextFailure == FailureStep /\ UNCHANGED <<cacheVars, playback, listing, codec, selection,
                                          roundTrip, credential>>

SpecFailure == Init /\ [][NextFailure]_vars

NextReady == ReadyStep /\ UNCHANGED <<cacheVars, playback, codec, selection, roundTrip,
                                      credential>>

SpecReady == Init /\ [][NextReady]_vars

(***************************************************************************)
(* Claims about the availability cache.                                    *)
(***************************************************************************)
StartedWithCredential(call) == call.pc # "idle" /\ Truthy(call.token)

\* The hashes a request names, lower-cased.
RequestedHashes(request) == {toLowerCase(h) : h \in Range(request.hashes)}

\* A lookup issues no request for a hash whose entry was live when it began.
NoRequestForLiveHash ==
    \A c \in Calls :
        StartedWithCredential(calls[c]) =>
            \A n \in 1..Len(calls[c].requests) :
                RequestedHashes(calls[c].requests[n]) \cap calls[c].liveAtStart = {}

\* A finished lookup reports a hash whose entry was live when it began
\* exactly as the entry's flag said.
AnswersFromStoredFlag ==
    \A c \in Calls :
        (StartedWithCredential(calls[c]) /\ calls[c].pc = "done") =>
            \A h \in calls[c].liveAtStart :
                h \in calls[c].result <=> h \in calls[c].cachedAtStart

\* C1: cache hit idempotence.  A lookup made with a credential while a
\* hash's entry (written by an earlier fetch) has not expired issues no
\* network request for that hash and answers it from the stored flag.
C1_CacheHitIdempotence == NoRequestForLiveHash /\ AnswersFromStoredFlag

\* The requests of one call come in the order the fallback chain allows.
FallbackOrdered(requests) ==
    \A n \in 1..Len(requests) :
        LET r == requests[n] IN
        /\ r.kind = "comma" =>
              /\ n > 1
              /\ requests[n - 1].kind = "slash"
              /\ requests[n - 1].chunk = r.chunk
              /\ requests[n - 1].hashes = r.hashes
              /\ requests[n - 1].outcome \in {"failed", "empty"}
        /\ r.kind = "single" =>
              \E j \in 1..(n - 1) :
                  /\ j > 1
                  /\ requests[j].kind = "comma"
                  /\ requests[j].chunk = r.chunk
                  /\ requests[j].outcome \in {"failed", "empty"}
                  /\ requests[j - 1].kind = "slash"
                  /\ requests[j - 1].outcome \in {"failed", "empty"}
                  /\ Range(r.hashes) \subseteq Range(requests[j].hashes)
        /\ (r.kind \in {"slash", "comma"} /\ r.outcome = "nonempty") =>
              \A m \in (n + 1)..Len(requests) : requests[m].chunk # r.chunk

\* C2: within a chunk the comma-joined query goes out only after the
\* slash-joined query failed or came back empty, a single-hash query only
\* after both did, and no further query of the chunk goes out after a
\* strategy returned a non-empty payload.
C2_FallbackOrdering == \A c \in Calls : FallbackOrdered(calls[c].requests)

\* A finished lookup that went through all three strategies.
C2_Witness ==
    \E c \in Calls :
        /\ calls[c].pc = "done"
        /\ Len(calls[c].requests) >= 4
        /\ calls[c].requests[1].outcome = "failed"
        /\ calls[c].requests[2].outcome = "empty"
        /\ calls[c].requests[3].kind = "single"
        /\ calls[c].requests[4].kind = "single"

(***************************************************************************)
(* Claims about the playback resolver.                                     *)
(***************************************************************************)

\* The step of the resolver's state machine an operation of the trace is.
StepOf(entry) ==
    CASE entry.by = "getDirectDownloadUrl" -> "BuildDirectUrl"
      [] entry.op = "addMagnet" -> "Submit"
      [] entry.op = "getTorrentInfo" -> "Inspect"
      [] entry.op = "selectFiles" -> "SelectFile"
      [] entry.op = "setTimeout" -> "Wait"
      [] OTHER -> "Unknown"

Steps(trace) == [n \in 1..Len(trace) |-> StepOf(trace[n])]

IsPrefix(s, t) == Len(s) <= Len(t) /\ s = SubSeq(t, 1, Len(s))

\* The two complete runs; BuildDirectUrl is getDirectDownloadUrl's
\* getTorrentInfo followed by its unrestrictLink.
DirectRun ==
    <<"Submit", "Inspect", "SelectFile", "Inspect", "BuildDirectUrl", "BuildDirectUrl">>
WaitingRun ==
    <<"Submit", "Inspect", "SelectFile", "Inspect", "Wait", "Inspect",
      "BuildDirectUrl", "BuildDirectUrl">>

PlaceholderOf(pb) == pb.baseUrl \o "/placeholder/downloading.mp4"

\* C3: the external operations of a resolve call follow the linear order
\* Submit, Inspect, SelectFile, Inspect, then BuildDirectUrl after a
\* 'downloaded' status, or one wait and one more Inspect, which leads to
\* BuildDirectUrl or to the placeholder; a step is taken only after the one
\* before it succeeded, and the wait only after a status other than
\* 'downloaded'.
C3_LinearOrder ==
    LET trace == playback.trace
        steps == Steps(trace)
    IN  /\ IsPrefix(steps, DirectRun) \/ IsPrefix(steps, WaitingRun)
        /\ \A n \in 1..(Len(trace) - 1) : trace[n].result = "ok"
        /\ \A n \in 5..Len(trace) :
              /\ (steps[n] = "Wait") => ~(trace[n - 1].status = "downloaded")
              /\ (steps[n] = "BuildDirectUrl" /\ steps[n - 1] = "Inspect") =>
                    trace[n - 1].status = "downloaded"
        /\ Cardinality({n \in 1..Len(trace) : steps[n] = "Wait"}) <= 1
        /\ (playback.returned # "" /\ playback.returned = PlaceholderOf(playback)) =>
              /\ steps = SubSeq(WaitingRun, 1, 6)
              /\ ~(trace[6].status = "downloaded")

\* A call that waited, found the job downloaded and built the direct URL.
C3_Witness ==
    /\ playback.pc = "replied"
    /\ Steps(playback.trace) = WaitingRun
    /\ playback.reply.status = 302

\* Submit, SelectFile and the Inspect calls succeeded, and the status was
\* not 'downloaded' at the first check nor at the re-check after the wait.
NeverDownloaded(pb) ==
    /\ Len(pb.trace) = 6
    /\ Steps(pb.trace) = SubSeq(WaitingRun, 1, 6)
    /\ \A n \in 1..6 : pb.trace[n].result = "ok"
    /\ ~(pb.trace[4].status = "downloaded")
    /\ ~(pb.trace[6].status = "downloaded")

\* C4: when every operation succeeds and the status is 'downloaded' neither
\* at the first check nor at the single re-check, the call returns the
\* placeholder URL, base URL + /placeholder/downloading.mp4, and throws
\* nothing.
C4_PlaceholderWhenNotReady ==
    NeverDownloaded(playback) =>
        /\ playback.pc = "replied"
        /\ playback.thrown = ""
        /\ playback.returned = playback.baseUrl \o "/placeholder/downloading.mp4"
        /\ playback.reply.redirect = playback.returned

C4_Witness ==
    /\ NeverDownloaded(playback)
    /\ playback.trace[4].status = "queued"
    /\ playback.trace[6].status = "downloading"
    /\ playback.reply.status = 302

\* The error processMagnetToDirectUrl throws for a fatal result of an
\* operation.
FatalErrorOf(entry) ==
    CASE entry.result = "nofiles" -> "No files found in torrent"
      [] entry.op = "addMagnet" -> "Failed to add magnet"
      [] entry.op = "selectFiles" -> "Failed to select files"
      [] OTHER -> "Failed to get torrent info"

IsFatal(entry) ==
    \/ entry.op \in {"addMagnet", "getTorrentInfo", "selectFiles"} /\ entry.result = "failed"
    \/ entry.result = "nofiles"

\* C5: a failure of Submit, of an Inspect or of SelectFile, and an empty
\* file list, end the call: no further operation is issued, the error
\* reaches the route as thrown, and the route answers with an error
\* response, never with a redirect.
C5_FailuresAreFatal ==
    \A n \in 1..Len(playback.trace) :
        IsFatal(playback.trace[n]) =>
            /\ n = Len(playback.trace)
            /\ playback.pc = "replied"
            /\ playback.thrown = FatalErrorOf(playback.trace[n])
            /\ playback.returned = ""
            /\ playback.reply.status = 500
            /\ playback.reply.redirect = ""

\* A job without files: the call stopped before SelectFile.
C5_Witness ==
    /\ Len(playback.trace) = 2
    /\ playback.trace[2].result = "nofiles"
    /\ playback.reply.status = 500

(***************************************************************************)
(* Claims about the listing orchestrator.                                  *)
(***************************************************************************)
Finished(request) == request.pc = "done"

\* C6: the listing operation never lets an error escape: whatever discovery,
\* the availability lookup and the building of the metadata do, throwing
\* included, handleStreamRequest completes with a list of streams, which is
\* empty after an error.
C6_ListingNeverThrows ==
    /\ listing.escaped = ""
    /\ Finished(listing) => listing.completed
    /\ Finished(listing) /\ listing.caught # "" => listing.streams = <<>>

\* A request that found streams, looked them up and failed while building
\* the metadata.
C6_Witness ==
    /\ Finished(listing)
    /\ listing.lookedUp
    /\ listing.caught = "TypeError"
    /\ listing.completed
    /\ listing.streams = <<>>

\* A finished request that had no credential and returned its streams.
AnsweredWithoutCredential(request) ==
    /\ Finished(request)
    /\ request.caught = ""
    /\ ~Truthy(request.realDebridToken)

\* Half of C7: without a credential the url of every emitted stream is the
\* stream's own magnet.
UrlIsOwnMagnet ==
    AnsweredWithoutCredential(listing) =>
        \A k \in 1..Len(listing.streams) :
            listing.streams[k].url =
                extractStreamMagnet(listing.sourceStreams[listing.streams[k].candidate])

\* C7: without a credential, the url of every emitted stream is the stream's
\* own magnet, and behaviorHints.fallbackMagnet is present and is that same
\* magnet.
C7_MagnetFallbackWithoutCredential ==
    AnsweredWithoutCredential(listing) =>
        \A k \in 1..Len(listing.streams) :
            LET emitted == listing.streams[k]
                own == extractStreamMagnet(listing.sourceStreams[emitted.candidate])
            IN  /\ emitted.url = own
                /\ emitted.behaviorHints.fallbackMagnet # Absent
                /\ emitted.behaviorHints.fallbackMagnet = own

\* A magnet link, whatever the letter case of its scheme.
IsMagnetLink(s) == s.scheme \in {"magnet:", "MAGNET:"}

LacksMagnetAndHash(stream) ==
    /\ ~IsMagnetLink(stream.magnet)
    /\ ~IsMagnetLink(stream.url)
    /\ stream.infoHash = EmptyString

\* The positions of the delivered candidates without magnet and hash.
Lacking(request) ==
    {n \in 1..Len(request.sourceStreams) : LacksMagnetAndHash(request.sourceStreams[n])}

\* The content hash a candidate carries, in lower case.
OwnHash(stream) ==
    IF stream.infoHash # EmptyString THEN toLowerCase(stream.infoHash)
    ELSE IF IsMagnetLink(stream.magnet) THEN toLowerCase(stream.magnet.btih)
    ELSE toLowerCase(stream.url.btih)

AcceptedHits(call) ==
    {<<q, n>> \in (1..Len(call.results)) \X (1..(MAX_STREAMS + 4)) :
        /\ n <= Len(call.results[q])
        /\ call.results[q][n].relevant
        /\ startsWith(call.results[q][n].magnet, "magnet:")}

\* Query-then-result order.
Before(a, b) == a[1] < b[1] \/ (a[1] = b[1] /\ a[2] < b[2])

\* The normalized content hash of a hit; EmptyString if it has none.
NormalizedHash(call, hit) ==
    LET torrent == call.results[hit[1]][hit[2]]
    IN  toLowerCase(IF torrent.infoHash # EmptyString THEN torrent.infoHash
                    ELSE torrent.magnet.btih)

AcceptedHashes(call) ==
    {NormalizedHash(call, hit) : hit \in AcceptedHits(call)} \ {EmptyString}

\* The first accepted hit with the hash.
FirstSeen(call, hash) ==
    CHOOSE hit \in AcceptedHits(call) :
        /\ NormalizedHash(call, hit) = hash
        /\ \A other \in AcceptedHits(call) :
              NormalizedHash(call, other) = hash => ~Before(other, hit)

\* The positions in the output of the candidates with the hash.
CandidatesOf(call, hash) ==
    {k \in 1..Len(call.streams) : NormalizedHash(call, call.streams[k].hit) = hash}

\* C9 as stated: the output holds exactly one candidate per normalized hash
\* of the accepted hits, and it is the first one seen.
C9_ExactlyOnePerHash ==
    discovery.pc = "done" =>
        \A hash \in AcceptedHashes(discovery) :
            /\ Cardinality(CandidatesOf(discovery, hash)) = 1
            /\ \A k \in CandidatesOf(discovery, hash) :
                  discovery.streams[k].hit = FirstSeen(discovery, hash)

\* C9: the output holds at most one candidate per normalized hash of the
\* accepted hits, and it is the first one seen; a hash has no candidate only
\* if the output reached MAX_STREAMS candidates before the hash was first
\* seen.
C9_FirstSeenPerHash ==
    discovery.pc = "done" =>
        \A hash \in AcceptedHashes(discovery) :
            /\ Cardinality(CandidatesOf(discovery, hash)) <= 1
            /\ \A k \in CandidatesOf(discovery, hash) :
                  discovery.streams[k].hit = FirstSeen(discovery, hash)
            /\ CandidatesOf(discovery, hash) = {} =>
                  /\ Len(discovery.streams) = MAX_STREAMS
                  /\ Before(discovery.streams[MAX_STREAMS].hit, FirstSeen(discovery, hash))

\* A call over two queries in which a hash was seen three times, in both
\* queries and in different letter cases, and has one candidate.
C9_Witness ==
    /\ discovery.pc = "done"
    /\ Len(discovery.results) = 2
    /\ \E hash \in AcceptedHashes(discovery) :
          /\ Cardinality({hit \in AcceptedHits(discovery) :
                             NormalizedHash(discovery, hit) = hash}) >= 3
          /\ \E a, b \in AcceptedHits(discovery) :
                /\ a[1] # b[1]
                /\ NormalizedHash(discovery, a) = hash
                /\ NormalizedHash(discovery, b) = hash
                /\ discovery.results[a[1]][a[2]].magnet # discovery.results[b[1]][b[2]].magnet
          /\ Cardinality(CandidatesOf(discovery, hash)) = 1

(***************************************************************************)
(* Claims about the stream context codec.                                  *)
(***************************************************************************)
\* Whether a value holds a number that is not finite.
RECURSIVE HasNonFiniteNumber(_)
HasNonFiniteNumber(value) ==
    \/ value.t = "Infinity"
    \/ \E i \in 1..Len(value.items) : HasNonFiniteNumber(value.items[i].val)

\* The round trip of the contexts whose numbers are all finite.
RoundTripOfFiniteContexts ==
    codec.pc = "decoded" /\ ~HasNonFiniteNumber(codec.context)
        => codec.decoded = codec.context

\* A context with most of its members went through the codec; its encoding
\* has both URL-safe characters and had its padding removed.
RoundTripExercised ==
    /\ codec.pc = "decoded"
    /\ Len(codec.context.items) >= 5
    /\ ~HasNonFiniteNumber(codec.context)
    /\ 45 \in Range(codec.encoded)
    /\ 95 \in Range(codec.encoded)
    /\ Len(codec.encoded) % 4 # 0
    /\ codec.decoded = codec.context

\* C10: decodeStreamContext(encodeStreamContext(c)) equals c for every
\* context c, whichever of its members are populated, none included.
C10_ContextRoundTrip ==
    codec.pc = "decoded" => codec.decoded = codec.context

(***************************************************************************)
(* Claims about the relevance filter.                                      *)
(***************************************************************************)
\* The search hit a stream of the output was made from.
HitOf(call, stream) == call.results[stream.hit[1]][stream.hit[2]]

\* The hits of a call, as <<query, position>>.
HitsOf(call) ==
    {<<q, n>> \in (1..Len(call.results)) \X (1..3) : n <= Len(call.results[q])}

\* The identifier of the request, <<>> if its id is free text.
RequestIdentifier(call) == call.context.parsed.imdbId

\* The identifier a hit carries: 'tt' and digits in its imdb member.
HitIdentifier(torrent) == matchImdb(torrent.imdb)

FinishedWithIdentifier(call) ==
    call.pc = "done" /\ Len(call.results) = call.queries /\ RequestIdentifier(call) # <<>>

\* Whether the output holds a stream of the hit's content hash.
InOutput(call, hit) ==
    \E k \in 1..Len(call.streams) :
        NormalizedHash(call, call.streams[k].hit) = NormalizedHash(call, hit)

\* Where both the hit and the request carry an identifier, the filter
\* accepts the hit exactly if the two are equal, and the output holds the
\* accepted hits and no others of these.
DecidedByIdentifierAlone ==
    FinishedWithIdentifier(discovery) =>
        \A hit \in HitsOf(discovery) :
            LET torrent == discovery.results[hit[1]][hit[2]]
            IN  HitIdentifier(torrent) # <<>> =>
                  /\ torrent.relevant <=> HitIdentifier(torrent) = RequestIdentifier(discovery)
                  /\ InOutput(discovery, hit)
                        <=> HitIdentifier(torrent) = RequestIdentifier(discovery)

\* The output of a request with an identifier holds only hits that carry it.
OnlyMatchingHits ==
    FinishedWithIdentifier(discovery) =>
        \A k \in 1..Len(discovery.streams) :
            HitIdentifier(HitOf(discovery, discovery.streams[k])) = RequestIdentifier(discovery)

\* C11 as stated: for a request that carries an identifier the output
\* includes only the hits that carry the same identifier, and where both
\* carry one, equality of the two decides alone.
C11_OnlyMatchingHit == OnlyMatchingHits /\ DecidedByIdentifierAlone

\* C11: for a request that carries an identifier, a hit that carries one too
\* is accepted exactly if the two are equal, whatever its titles, year,
\* season and episodes say, so the output includes no hit with another
\* identifier; a hit in the output that does not carry the identifier of the
\* request carries none.
C11_IdentifierDecides ==
    /\ DecidedByIdentifierAlone
    /\ FinishedWithIdentifier(discovery) =>
          \A k \in 1..Len(discovery.streams) :
              HitIdentifier(HitOf(discovery, discovery.streams[k]))
                  \in {RequestIdentifier(discovery), <<>>}

\* A movie request with an identifier, a title and a year: the output holds
\* the hit with the identifier whose title, year, season and episodes all
\* differ, and not the hit with another identifier that is alike in all.
C11_Witness ==
    /\ FinishedWithIdentifier(discovery)
    /\ discovery.context.targetTitles # <<>>
    /\ discovery.context.releaseYear # NoNumber
    /\ discovery.context.type = movie
    /\ \E a, b \in HitsOf(discovery) :
          /\ discovery.results[a[1]][a[2]].imdb = MatchingButUnlike.imdb
          /\ discovery.results[a[1]][a[2]].titles = MatchingButUnlike.titles
          /\ InOutput(discovery, a)
          /\ discovery.results[b[1]][b[2]].imdb = OtherButAlike.imdb
          /\ ~InOutput(discovery, b)

(***************************************************************************)
(* Claims about best-file selection.                                       *)
(***************************************************************************)
\* The positions of the video files of a selection.
VideoFilesOf(sel) == {n \in 1..Len(sel.files) : isVideoFile(sel.files[n].path)}

\* The episode tokens the path of file n matches.
TokensOf(sel, n) == matchedTokens(normalize(sel.files[n].path), sel.context)

\* A context {season, episode}: these two members and no others.
OnlySeasonAndEpisode(context) ==
    /\ context.defined
    /\ context.season # NoNumber /\ context.episode # NoNumber
    /\ context.title = <<>> /\ context.episodeTitle = <<>>
    /\ context.year = NoNumber /\ context.episodeList = <<>>

\* C12: with a context {season, episode}, of two video files whose paths
\* match the same episode tokens the smaller one is never selected: among
\* such files the file with the larger byte size is the one chosen.
C12_LargerFileOfSameTokens ==
    (selection.pc = "selected" /\ OnlySeasonAndEpisode(selection.context)) =>
        \A f, g \in VideoFilesOf(selection) :
            (/\ TokensOf(selection, f) = TokensOf(selection, g)
             /\ selection.files[f].bytes < selection.files[g].bytes)
                => selection.selected # f

\* Context {season: 2, episode: 5}; the 200 MB file comes first, the 2 GB
\* file matches the same tokens and is selected.
C12_Witness ==
    /\ selection.pc = "selected"
    /\ selection.context = FileContext(2, 5, <<>>, NoNumber, <<>>, <<>>)
    /\ Len(selection.files) = 2
    /\ selection.files[1].bytes = 200000000
    /\ selection.files[2].bytes = 2000000000
    /\ TokensOf(selection, 1) = TokensOf(selection, 2)
    /\ TokensOf(selection, 1) # {}
    /\ scoreFileAgainstContext(selection.files[2], selection.context) = 16
    /\ selection.selected = 2

(***************************************************************************)
(* Further claims about the availability cache.                            *)
(***************************************************************************)
\* The hashes a lookup was called with, lower-cased.
LookedUpHashes(call) == {toLowerCase(h) : h \in Range(call.hashes)}

\* C13: the set a lookup returns is a subset of the lower-cased hashes it
\* was called with, whatever keys the payloads of the service hold.
C13_ResultWithinRequest ==
    \A c \in Calls :
        calls[c].pc = "done" => calls[c].result \subseteq LookedUpHashes(calls[c])

\* A lookup made without a credential.
WithoutCredential(call) == call.pc # "idle" /\ call.token = ""

\* Whether the cache holds an entry of the hash that has not expired.
HasUnexpiredEntry(cache, hash, now) ==
    \E h \in DOMAIN cache : h = hash /\ cache[h].expires > now

\* A lookup without a credential is over at once: it issued no request and
\* reports no hash that lacks a live entry.  (No entry is written while its
\* record stands, so the cache is as the lookup found it.)
NoCredentialNoAnswer ==
    \A c \in Calls :
        WithoutCredential(calls[c]) =>
            /\ calls[c].pc = "done"
            /\ calls[c].requests = <<>>
            /\ \A h \in LookedUpHashes(calls[c]) :
                  ~HasUnexpiredEntry(instantAvailabilityCache, h, calls[c].now)
                      => h \notin calls[c].result

\* A step that starts a lookup without a credential, or happens while its
\* record stands, leaves the cache as it is.
NoCredentialNoEntry ==
    \A c \in Calls :
        WithoutCredential(calls'[c]) =>
            instantAvailabilityCache' = instantAvailabilityCache

\* The hashes that two calls were both given, the empty string aside.
CommonHashes(a, b) == (LookedUpHashes(a) \cap LookedUpHashes(b)) \ {EmptyString}

\* A lookup with a credential that follows one without queries the service
\* for every hash of both that has no live entry.
LaterLookupStillQueries ==
    \A c \in Calls :
        (/\ lookups' = lookups + 1
         /\ WithoutCredential(calls[c])
         /\ calls'[c].token # "") =>
            \A h \in CommonHashes(calls[c], calls'[c]) :
                ~HasUnexpiredEntry(instantAvailabilityCache, h, clock) =>
                    /\ calls'[c].requests # <<>>
                    /\ h \in RequestedHashes(calls'[c].requests[1])

\* C14: a lookup made without a credential issues no network request,
\* leaves the cache unchanged and reports every hash without a live entry as
\* unavailable; a later lookup of the same hash with a credential still
\* queries the external service.
C14_NoCredentialNoCaching ==
    []NoCredentialNoAnswer /\ [][NoCredentialNoEntry /\ LaterLookupStillQueries]_vars

\* A lookup of AA and bb without a credential that found an expired entry
\* of aa, once confirmed available, and reports nothing.
C14_Witness ==
    \E c \in Calls :
        /\ WithoutCredential(calls[c])
        /\ calls[c].hashes = <<Up(1), Lo(2)>>
        /\ Lo(1) \in DOMAIN instantAvailabilityCache
        /\ instantAvailabilityCache[Lo(1)].cached
        /\ instantAvailabilityCache[Lo(1)].expires <= calls[c].now
        /\ Lo(2) \notin DOMAIN instantAvailabilityCache
        /\ calls[c].result = {}

\* Every hash a finished lookup had to fetch has an entry.
EveryFetchedHashHasEntry ==
    \A c \in Calls :
        (StartedWithCredential(calls[c]) /\ calls[c].pc = "done") =>
            Range(calls[c].hashesToFetch) \subseteq DOMAIN instantAvailabilityCache

\* C15: once a lookup with a credential has processed a chunk, every hash of
\* the chunk has an entry, whichever strategy answered and also when all
\* failed: true for the hashes the lookup confirmed available, false for
\* all others.
C15_EveryChunkHashCached ==
    \A c \in Calls :
        (StartedWithCredential(calls[c]) /\ calls[c].pc = "done") =>
            \A h \in Range(calls[c].hashesToFetch) :
                /\ h \in DOMAIN instantAvailabilityCache
                /\ instantAvailabilityCache[h].cached <=> h \in calls[c].result

\* A lookup of AA and bb went through all strategies; the answer to the
\* query of AA confirmed bb, the answer to the query of bb nothing.
C15_Witness ==
    \E c \in Calls :
        /\ StartedWithCredential(calls[c])
        /\ calls[c].pc = "done"
        /\ calls[c].hashesToFetch = <<Lo(1), Lo(2)>>
        /\ Len(calls[c].requests) = 4
        /\ calls[c].result = {Lo(2)}
        /\ EveryFetchedHashHasEntry
        /\ ~instantAvailabilityCache[Lo(2)].cached

\* Whether the cache holds an entry of the hash whose expiry time is past.
HasExpiredEntry(cache, hash, now) ==
    \E h \in DOMAIN cache : h = hash /\ cache[h].expires < now

\* The step that starts a lookup with a credential answers no hash from an
\* expired entry and puts the hash into the first query to the service.
ExpiredIsRefetched ==
    \A c \in Calls :
        (lookups' = lookups + 1 /\ calls'[c].token # "") =>
            \A h \in LookedUpHashes(calls'[c]) \ {EmptyString} :
                HasExpiredEntry(instantAvailabilityCache, h, clock) =>
                    /\ h \notin calls'[c].result
                    /\ h \in Range(calls'[c].hashesToFetch)
                    /\ calls'[c].pc = "awaitSlash"
                    /\ h \in RequestedHashes(calls'[c].requests[1])

\* Once the lookup is done, the entry of every hash it queued was written
\* by this lookup.
RefetchOverwrites ==
    \A c \in Calls :
        (StartedWithCredential(calls[c]) /\ calls[c].pc = "done") =>
            \A h \in Range(calls[c].hashesToFetch) :
                /\ h \in DOMAIN instantAvailabilityCache
                /\ instantAvailabilityCache[h].expires =
                       calls[c].now + INSTANT_AVAILABILITY_TTL_MS

\* C16: an entry whose expiry time is in the past is treated as absent: a
\* lookup with a credential never answers a hash from an expired entry, and
\* it queues that hash for a new network fetch that overwrites the entry.
C16_ExpiredEntryIsAbsent ==
    []RefetchOverwrites /\ [][ExpiredIsRefetched]_vars

\* A lookup with a credential found an entry of aa, once confirmed
\* available and now expired: aa is not in the result and its query is out.
C16_Witness ==
    \E c \in Calls :
        /\ calls[c].pc = "awaitSlash"
        /\ calls[c].token # ""
        /\ Lo(1) \in DOMAIN instantAvailabilityCache
        /\ instantAvailabilityCache[Lo(1)].cached
        /\ instantAvailabilityCache[Lo(1)].expires < calls[c].now
        /\ Lo(1) \in Range(calls[c].hashesToFetch)
        /\ Lo(1) \notin calls[c].result

\* Every key of the cache is a hash in lower case.
KeysAreLowerCase ==
    \A h \in DOMAIN instantAvailabilityCache : h = toLowerCase(h)

\* The entries a step writes: the new ones and the changed ones.
WrittenEntries ==
    {h \in DOMAIN instantAvailabilityCache' :
        h \notin DOMAIN instantAvailabilityCache
        \/ instantAvailabilityCache'[h] # instantAvailabilityCache[h]}

\* An entry expires one TTL after the response that wrote it came in.
ExpiresFullTTLAfterFetch ==
    \A h \in WrittenEntries :
        instantAvailabilityCache'[h].expires = clock + INSTANT_AVAILABILITY_TTL_MS

\* C17: every cache entry is keyed by a lower-case hash and its expiry is
\* the moment of the fetch that confirmed it plus the TTL of 5 minutes,
\* however long the lookup took before that fetch.
C17_FullTTLFromConfirmingFetch ==
    []KeysAreLowerCase /\ [][ExpiresFullTTLAfterFetch]_vars

\* Time has passed since the lookup began and its query of bb is still out:
\* the entry of aa is written, and the entry the answer will write for bb
\* expires, like it, one TTL after the start of the lookup.
C17_Witness ==
    \E c \in Calls :
        /\ calls[c].pc = "awaitSingle"
        /\ calls[c].k = 2
        /\ calls[c].hashesToFetch = <<Lo(1), Lo(2)>>
        /\ clock > calls[c].now
        /\ Lo(1) \in DOMAIN instantAvailabilityCache
        /\ instantAvailabilityCache[Lo(1)].expires =
               calls[c].now + INSTANT_AVAILABILITY_TTL_MS
        /\ Lo(2) \notin DOMAIN instantAvailabilityCache

(***************************************************************************)
(* Further claims about the listing orchestrator.                          *)
(***************************************************************************)
\* The content hashes of the candidates that remain after the filter of
\* handleStreamRequest, as far as a hash can be derived.
ResolvableHashes(request) ==
    {getStreamInfoHash(request.sourceStreams[n]) :
        n \in Range(processableStreams(request.sourceStreams))} \ {EmptyString}

\* A request that ran to its end without an exception.
ListedCandidates(request) == Finished(request) /\ request.caught = ""

\* The streams built from candidates without a derivable hash are not ready.
HashlessNotReady ==
    ListedCandidates(listing) =>
        \A k \in 1..Len(listing.streams) :
            getStreamInfoHash(listing.sourceStreams[listing.streams[k].candidate])
                = EmptyString
                => ~listing.streams[k].behaviorHints.realDebridReady

\* C18: in every listing request that has at least one resolvable
\* candidate the availability lookup is invoked, once, with the union of
\* the content hashes of all remaining candidates, those of the indexer
\* provider included; candidates without a derivable hash are marked
\* unavailable.
C18_OneLookupWithAllHashes ==
    /\ (ListedCandidates(listing) /\ ResolvableHashes(listing) # {}) =>
          /\ listing.lookedUp
          /\ Range(listing.lookupHashes) = ResolvableHashes(listing)
          /\ Cardinality(Range(listing.lookupHashes)) = Len(listing.lookupHashes)
    /\ HashlessNotReady

\* The only candidate is one of the indexer provider, which set its cached
\* member to false: the request is over and no lookup was made.
C18_Witness ==
    /\ ListedCandidates(listing)
    /\ Len(listing.sourceStreams) = 1
    /\ listing.sourceStreams[1].cached = "false"
    /\ ResolvableHashes(listing) = {Lo(1)}
    /\ Truthy(listing.realDebridToken)
    /\ ~listing.lookedUp
    /\ Len(listing.streams) = 1
    /\ ~listing.streams[1].behaviorHints.realDebridReady

\* The stream metadata of a finished request as built, before the sort.
BuiltStreams(request) ==
    streamMetadata(request.sourceStreams, request.realDebridToken, request.baseUrl)

\* Whether stream k of the output is confirmed available.
ReadyAt(request, k) == request.streams[k].behaviorHints.realDebridReady

\* The output holds every built stream once and nothing else.
IsPermutationOfBuilt(request) ==
    /\ Len(request.streams) = Len(BuiltStreams(request))
    /\ Range(request.streams) = Range(BuiltStreams(request))
    /\ \A i, j \in 1..Len(request.streams) :
          request.streams[i].candidate = request.streams[j].candidate => i = j

IntendedCall(trip) ==
    [called |-> TRUE, magnet |-> trip.magnet, token |-> trip.token,
     context |-> trip.context]

\* A url with token and magnet as path segments leads to the resolver with
\* the magnet and the credential put in, and with the context put in unless
\* that holds a number that is not finite.
PathFormRecovers ==
    (roundTrip.pc = "routed" /\ roundTrip.builtBy = "path" /\ roundTrip.method = "GET") =>
        /\ roundTrip.call.called
        /\ roundTrip.call.magnet = roundTrip.magnet
        /\ roundTrip.call.token = roundTrip.token
        /\ roundTrip.context \in RoundTripContexts \ {StreamContext(UndefinedValue,
                  InfinityValue, NumberValue(0), UndefinedValue, UndefinedValue,
                  UndefinedValue, UndefinedValue)}
              => roundTrip.call.context = roundTrip.context

\* C20: the url of every emitted stream is a deferred-resolve url from which
\* the resolve route recovers exactly the credential, the magnet and the
\* context put in: the playback resolver is called with the same magnet,
\* the same credential and an unchanged context.
C20_ResolveRoundTrip ==
    (roundTrip.pc = "routed" /\ roundTrip.method = "GET") =>
        roundTrip.call = IntendedCall(roundTrip)

\* The url built as resolve?token=..&magnet=..&ctx=.. was requested: no
\* route took it, the reply is 404 and the resolver was not called.
C20_Witness ==
    /\ roundTrip.pc = "routed"
    /\ roundTrip.method = "GET"
    /\ roundTrip.builtBy = "query"
    /\ roundTrip.url.path = <<ResolveSegment>>
    /\ roundTrip.url.query.ctx # <<>>
    /\ roundTrip.status = 404
    /\ ~roundTrip.call.called

(***************************************************************************)
(* Claims about the credential extraction.                                 *)
(***************************************************************************)
\* The candidates of a call in the order of the claim.
CredentialCandidates(call) ==
    <<call.query.realdebridToken, call.query.rdToken, call.query.token, call.xRdToken,
      call.extra.realdebridToken, call.extra.token, call.paramsToken>>

\* The first candidate that is not empty decides: nothing before it is
\* looked at and nothing after it is tried.
FirstNonEmptyDecides ==
    credential.pc = "extracted" =>
        LET cs == CredentialCandidates(credential)
        IN  /\ (\A n \in 1..Len(cs) : cs[n] = "") => credential.returned = ""
            /\ \A n \in 1..Len(cs) :
                  (cs[n] # "" /\ \A k \in 1..(n - 1) : cs[k] = "") =>
                      credential.returned = IF Len(cs[n]) > 20 THEN cs[n] ELSE ""

\* C21: credential extraction returns the first non-empty candidate in the
\* order query (realdebridToken, rdToken, token), x-rd-token header, extra
\* fields, path token, and only if it is longer than 20 characters; what is
\* returned is absent or longer than 20 characters.
C21_FirstNonEmptyLongerThan20 ==
    /\ FirstNonEmptyDecides
    /\ credential.returned = "" \/ Len(credential.returned) > 20

\* A query token of 20 characters stands before a path token of 21 and the
\* credential is absent.
C21_Witness ==
    /\ credential.pc = "extracted"
    /\ credential.query.token = "RDTOKEN-OF-20-CHARS-"
    /\ credential.query.realdebridToken = "" /\ credential.query.rdToken = ""
    /\ credential.paramsToken = "RDTOKEN-OF-21-CHARS--"
    /\ credential.returned = ""

(***************************************************************************)
(* Claims about the probe of a deferred-resolve url.                       *)
(***************************************************************************)
\* A reply that reports success.
IsSuccess(status) == status \in 200..299

\* C22: a HEAD request to a deferred-resolve url succeeds with no body and
\* does not invoke resolution: processMagnetForPlayback, whose first step is
\* the submission of the magnet, is not called for it.
C22_HeadSucceedsWithoutResolution ==
    (roundTrip.pc = "routed" /\ roundTrip.method = "HEAD") =>
        /\ IsSuccess(roundTrip.status)
        /\ ~roundTrip.call.called

\* A url of the path form was probed where GET routes have a HEAD route: the
\* handler of the GET route ran and called the resolver.
C22_Witness ==
    /\ roundTrip.pc = "routed"
    /\ roundTrip.method = "HEAD"
    /\ roundTrip.builtBy = "path"
    /\ roundTrip.call.called
    /\ roundTrip.call.magnet = roundTrip.magnet

\* No probe is answered with success and without a call of the resolver.
NoProbeAsClaimed ==
    (roundTrip.pc = "routed" /\ roundTrip.method = "HEAD") =>
        ~(IsSuccess(roundTrip.status) /\ ~roundTrip.call.called)

\* A url of the path form was probed where GET routes have no HEAD route:
\* the reply is 404.
ProbeNotFound ==
    /\ roundTrip.pc = "routed"
    /\ roundTrip.method = "HEAD"
    /\ roundTrip.builtBy = "path"
    /\ roundTrip.status = 404

(***************************************************************************)
(* Claims about the failure policy of discovery.                           *)
(***************************************************************************)
\* C23: discovery never throws: a network or parse failure of the metadata
\* lookup or of a search yields zero results for that query only, the
\* remaining query is still issued, for every shape of search payload,
\* malformed entries in the result list included.
C23_DiscoveryNeverThrows ==
    /\ discovery.pc # "thrown"
    /\ (discovery.pc \in {"done", "awaitAvailability"} /\ ~discovery.capped)
          => Len(discovery.results) = discovery.queries

\* The second of two searches returned a list with a null entry and the
\* call ended with the TypeError.
C23_Witness ==
    /\ discovery.pc = "thrown"
    /\ discovery.queries = 2
    /\ Len(discovery.results) = 1

\* A search that fails does not end the call and changes nothing but the
\* count of the queries answered: the streams found so far stay, and the
\* next query is sent if there is one.
FailedSearchLeavesNoResult ==
    \A answer \in FailedAnswers :
        SearchAnswered(answer) =>
            /\ discovery'.pc # "thrown"
            /\ Len(discovery'.results) = Len(discovery.results) + 1
            /\ discovery'.results[Len(discovery'.results)] = <<>>
            /\ discovery.pc = "awaitSearch"
            /\ Len(discovery.results) + 1 < discovery.queries =>
                  /\ discovery'.pc = "awaitSearch"
                  /\ discovery'.streams = discovery.streams

\* Failures of the searches and of the metadata lookup never end a call, and
\* a call that no null entry ended has sent every query.
FailuresDoNotAbort ==
    /\ [][FailedSearchLeavesNoResult]_vars
    /\ [](discovery.pc \in {"done", "awaitAvailability"} /\ ~discovery.capped
            => Len(discovery.results) = discovery.queries)

\* The first of two searches failed and the second one's hit is returned.
FailedThenFound ==
    /\ discovery.pc = "done"
    /\ discovery.queries = 2
    /\ discovery.results[1] = <<>>
    /\ Len(discovery.streams) = 1
    /\ discovery.streams[1].hit = <<2, 1>>

(***************************************************************************)
(* Claims about the links of a downloaded job.                             *)
(***************************************************************************)
\* The entries of the trace that found the job without a usable link.
WithoutLink(pb) == {n \in 1..Len(pb.trace) : pb.trace[n].result = "nolinks"}

NoLinksErrors == {"No download links available", "Download link is undefined"}

\* C24: when the job is 'downloaded' but has no link or no first link,
\* resolve fails with an error: the placeholder is not returned and
\* unrestrict is not called.
C24_NoLinksIsFatal ==
    \A n \in WithoutLink(playback) :
        /\ n > 1 /\ playback.trace[n - 1].status = "downloaded"
        /\ n = Len(playback.trace)
        /\ playback.pc = "replied"
        /\ playback.thrown \in NoLinksErrors
        /\ playback.returned = ""
        /\ playback.reply.status = 500
        /\ playback.reply.redirect = ""
        /\ \A k \in 1..Len(playback.trace) : playback.trace[k].op # "unrestrictLink"

\* The job was downloaded at the second status check and its links were
\* missing.
C24_Witness ==
    /\ WithoutLink(playback) # {}
    /\ Len(playback.trace) = 7
    /\ playback.trace[6].status = "downloaded"
    /\ playback.thrown = "Download link is undefined"

(***************************************************************************)
(* Further claims about best-file selection.                               *)
(***************************************************************************)
\* The score of file n of a selection, as points and bytes.
ScoreOf(sel, n) ==
    [points |-> scoreFileAgainstContext(sel.files[n], sel.context),
     bytes |-> sel.files[n].bytes]

\* The video files that score above zero; none without a context.
ScoringFiles(sel) ==
    IF sel.context.defined
    THEN {n \in VideoFilesOf(sel) : ScoreOf(sel, n).points > 0}
    ELSE {}

\* C25: selection returns a member of the file list: the first file of the
\* list if no file is a video file; otherwise a video file, the one of the
\* highest score (of equal scores the one of more bytes) where a context is
\* given and a video file scores above zero, and the largest video file
\* where not.
C25_BestFileByCases ==
    selection.pc = "selected" =>
        LET chosen == selection.selected
        IN  /\ chosen \in 1..Len(selection.files)
            /\ VideoFilesOf(selection) = {} => chosen = 1
            /\ VideoFilesOf(selection) # {} => chosen \in VideoFilesOf(selection)
            /\ ScoringFiles(selection) # {} =>
                  /\ chosen \in ScoringFiles(selection)
                  /\ \A g \in ScoringFiles(selection) :
                        /\ ~scoreLess(ScoreOf(selection, chosen), ScoreOf(selection, g))
                        /\ ~scoreLess(ScoreOf(selection, g), ScoreOf(selection, chosen))
                              => selection.files[g].bytes <= selection.files[chosen].bytes
            /\ (VideoFilesOf(selection) # {} /\ ScoringFiles(selection) = {}) =>
                  \A g \in VideoFilesOf(selection) :
                      selection.files[g].bytes <= selection.files[chosen].bytes

\* Two files, none a video file, the second the larger: the first is chosen.
C25_Witness ==
    /\ selection.pc = "selected"
    /\ Len(selection.files) = 2
    /\ VideoFilesOf(selection) = {}
    /\ selection.files[1].bytes < selection.files[2].bytes
    /\ selection.selected = 1

\* A context is given, no video file scores and the larger video file, the
\* second, is chosen; and a file of fewer points is not chosen for its size.
LargestWithoutScore ==
    /\ selection.pc = "selected"
    /\ selection.context.defined
    /\ Len(selection.files) = 2
    /\ VideoFilesOf(selection) = {1, 2}
    /\ ScoringFiles(selection) = {}
    /\ selection.files[1].bytes < selection.files[2].bytes
    /\ selection.selected = 2

HigherScoreBeforeSize ==
    /\ selection.pc = "selected"
    /\ ScoringFiles(selection) = {1, 2}
    /\ selection.files[1].bytes < selection.files[2].bytes
    /\ selection.selected = 1

(***************************************************************************)
(* Claims about the season and the episode of a hit.                       *)
(***************************************************************************)
\* A request for an episode: not a movie, with a season and an episode.
IsEpisodic(context) ==
    /\ textToLowerCase(context.type) # movie
    /\ context.parsed.season # NoNumber
    /\ context.parsed.episode # NoNumber

\* Whether equality of the identifiers decides about the hit.
DecidedByIdentifier(call, torrent) ==
    RequestIdentifier(call) # <<>> /\ HitIdentifier(torrent) # <<>>

\* The hit declares another season, another episode or a bundle of episodes
\* without the episode asked for.
DeclaresOther(torrent, parsed) ==
    \/ torrent.season # NoNumber /\ torrent.season # parsed.season
    \/ torrent.episode # NoNumber /\ torrent.episode # parsed.episode
    \/ torrent.episodes # <<>> /\ parsed.episode \notin Range(torrent.episodes)

DeclaresNothing(torrent) ==
    torrent.season = NoNumber /\ torrent.episode = NoNumber /\ torrent.episodes = <<>>

\* The context of the same request without season and episode.
WithoutEpisode(context) ==
    [context EXCEPT !.parsed.season = NoNumber, !.parsed.episode = NoNumber]

\* C26: for a request with season S and episode E, no hit that declares
\* another season, another episode or a non-empty episode list without E is
\* accepted, unless equality of identifiers decides; a hit that declares none
\* of these is accepted as it would be without S and E.
C26_OtherEpisodeRejected ==
    (discovery.pc \in {"awaitSearch", "awaitAvailability", "done"}
       /\ IsEpisodic(discovery.context)) =>
        \A hit \in HitsOf(discovery) :
            LET torrent == discovery.results[hit[1]][hit[2]]
            IN  ~DecidedByIdentifier(discovery, torrent) =>
                  /\ DeclaresOther(torrent, discovery.context.parsed) =>
                        /\ ~torrent.relevant
                        /\ \A k \in 1..Len(discovery.streams) : discovery.streams[k].hit # hit
                  /\ DeclaresNothing(torrent) =>
                        (torrent.relevant
                           <=> isRelevantTorrent(torrent, WithoutEpisode(discovery.context)))

\* A request for episode 5 of season 2 without an identifier: the bundle of
\* the episodes 6 and 7 is rejected, the hit that declares nothing is in the
\* output.
C26_Witness ==
    /\ discovery.pc = "done"
    /\ IsEpisodic(discovery.context)
    /\ RequestIdentifier(discovery) = <<>>
    /\ discovery.context.parsed.season = 2 /\ discovery.context.parsed.episode = 5
    /\ \E a, b \in HitsOf(discovery) :
          /\ discovery.results[a[1]][a[2]].episodes = <<6, 7>>
          /\ discovery.results[a[1]][a[2]].season = 2
          /\ ~discovery.results[a[1]][a[2]].relevant
          /\ DeclaresNothing(discovery.results[b[1]][b[2]])
          /\ discovery.results[b[1]][b[2]].relevant
          /\ InOutput(discovery, b)

(***************************************************************************)
(* Claims about the chunks of a lookup.                                    *)
(***************************************************************************)
\* The slice of the queue that starts after offset i, in upper case.
SliceAfter(queue, i) ==
    LET slice == SubSeq(queue, i + 1, Min(i + 50, Len(queue)))
    IN  [n \in 1..Len(slice) |-> toUpperCase(slice[n])]

\* Every request is for a slice of at most 50 consecutive hashes of the
\* queue that starts at a multiple of 50, or for one hash of such a slice.
RequestsAreForSlices(call) ==
    \A n \in 1..Len(call.requests) :
        LET r == call.requests[n]
        IN  /\ r.chunk % 50 = 0
            /\ r.chunk < Len(call.hashesToFetch)
            /\ Len(r.hashes) <= 50
            /\ r.kind \in {"slash", "comma"} =>
                  r.hashes = SliceAfter(call.hashesToFetch, r.chunk)
            /\ r.kind = "single" =>
                  /\ Len(r.hashes) = 1
                  /\ r.hashes[1] \in Range(SliceAfter(call.hashesToFetch, r.chunk))

\* Once the lookup is done, every queued hash was in the first query of
\* exactly one chunk.
EveryHashInOneChunk(call) ==
    call.pc = "done" =>
        \A p \in 1..Len(call.hashesToFetch) :
            Cardinality({n \in 1..Len(call.requests) :
                            /\ call.requests[n].kind = "slash"
                            /\ toUpperCase(call.hashesToFetch[p])
                                  \in Range(call.requests[n].hashes)}) = 1

\* The requests go out chunk after chunk and one at a time: only the last
\* one can be in flight.
OneRequestInFlight(call) ==
    /\ \A n \in 1..(Len(call.requests) - 1) :
          /\ call.requests[n].outcome # "pending"
          /\ call.requests[n].chunk <= call.requests[n + 1].chunk
    /\ (call.pc = "done" /\ call.requests # <<>>) =>
          call.requests[Len(call.requests)].outcome # "pending"

\* When a request of a chunk is out, the hashes of all chunks before it have
\* their entries, written by this lookup.
EarlierChunksWritten(call) ==
    \A n \in 1..Len(call.requests) :
        \A p \in 1..call.requests[n].chunk :
            /\ call.hashesToFetch[p] \in DOMAIN instantAvailabilityCache
            /\ instantAvailabilityCache[call.hashesToFetch[p]].expires
                  = call.now + INSTANT_AVAILABILITY_TTL_MS

\* C27: within one lookup the hashes to fetch are split into consecutive
\* chunks of at most 50, every queued hash belongs to exactly one chunk, and
\* the first request of a chunk goes out only after all requests and cache
\* writes of the chunk before: at most one request is in flight.
C27_ChunksInSequence ==
    \A c \in Calls :
        /\ RequestsAreForSlices(calls[c])
        /\ EveryHashInOneChunk(calls[c])
        /\ OneRequestInFlight(calls[c])
        /\ EarlierChunksWritten(calls[c])

\* A lookup of 101 hashes whose first chunk went through fetchPerHash and
\* whose third chunk, of one hash, has its first query in flight.
C27_Witness ==
    \E c \in Calls :
        /\ calls[c].pc = "awaitSlash"
        /\ Len(calls[c].hashesToFetch) = 101
        /\ calls[c].i = 100
        /\ calls[c].requests[3].kind = "single"
        /\ Len(calls[c].requests[Len(calls[c].requests)].hashes) = 1

(***************************************************************************)
(* Claims about concurrent lookups.                                        *)
(***************************************************************************)
\* No step replaces an entry by one that expires earlier.
ExpiryNotDecreased ==
    \A h \in DOMAIN instantAvailabilityCache :
        /\ h \in DOMAIN instantAvailabilityCache'
        /\ instantAvailabilityCache'[h].expires >= instantAvailabilityCache[h].expires

\* C28: under any interleaving of concurrent lookups at their awaits, a
\* write to a hash's entry never replaces it with an entry of an earlier
\* expiry: the expiry stored for a hash does not decrease.
C28_ExpiryNeverDecreases == [][ExpiryNotDecreased]_vars

\* Two lookups fetched the same hash; the one that started earlier wrote
\* last, and the entry expires one TTL after that earlier start.
C28_Witness ==
    \E a, b \in Handlers :
        /\ calls[a].pc = "done" /\ calls[b].pc = "done"
        /\ calls[a].now < calls[b].now
        /\ Lo(1) \in Range(calls[a].hashesToFetch) \cap Range(calls[b].hashesToFetch)
        /\ instantAvailabilityCache[Lo(1)].expires
              = calls[a].now + INSTANT_AVAILABILITY_TTL_MS

\* Whatever the interleaving, an entry expires one TTL after the start of a
\* lookup that fetched its hash.
ExpiryOfSomeLookup ==
    \A h \in DOMAIN instantAvailabilityCache :
        \E t \in 0..clock :
            instantAvailabilityCache[h].expires = t + INSTANT_AVAILABILITY_TTL_MS

(***************************************************************************)
(* Claims about the credential of a listing request.                       *)
(***************************************************************************)
\* The lookup of the request was handed a credential, so that it queries
\* the service for every hash without a live entry.
LookupWithCredential(request) == request.lookedUp /\ request.lookupToken # ""

\* C29: within one listing request an availability query bearing a
\* credential is sent only if the request builds its resolve urls with that
\* credential; a request that emits magnet urls because no candidate passed
\* the length check sends no availability query.
C29_OneCredentialDecision ==
    LookupWithCredential(listing) =>
        /\ listing.realDebridToken # ""
        /\ listing.lookupToken = listing.realDebridToken

\* REALDEBRID_TOKEN is too short to be accepted: the lookup was called with
\* it all the same and the streams carry their own magnets.
C29_Witness ==
    /\ AnsweredWithoutCredential(listing)
    /\ listing.extraToken = ""
    /\ listing.envToken = "rd-short"
    /\ listing.lookedUp
    /\ listing.lookupToken = "rd-short"
    /\ listing.streams # <<>>
    /\ \A k \in 1..Len(listing.streams) :
          listing.streams[k].url =
              extractStreamMagnet(listing.sourceStreams[listing.streams[k].candidate])

\* A request that accepted a credential hands that one to the lookup.
AcceptedCredentialIsUsed ==
    (listing.lookedUp /\ listing.realDebridToken # "") =>
        listing.lookupToken = listing.realDebridToken

\* The hashes that the availability lookups of the request returned: the one
\* of decorateWithRealDebrid and the one of ensureRealDebridAvailability.
ReturnedForRequest ==
    (IF discovery.lookedUp THEN discovery.cachedHashes ELSE {})
      \cup (IF listing.lookedUp THEN listing.cachedHashes ELSE {})

\* The candidate the k-th stream of the output was built from.
CandidateOf(k) == listing.sourceStreams[listing.streams[k].candidate]

IsReady(k) == listing.streams[k].behaviorHints.realDebridReady

\* The request came without extra.realdebridToken and without
\* REALDEBRID_TOKEN, and the cache held no live entry that says cached.
WithoutCredentialAndEntries ==
    /\ listing.extraToken = ""
    /\ listing.envToken = ""
    /\ listing.liveEntries = {}

ReadyByOwnLookup ==
    ListedCandidates(listing) =>
        \A k \in 1..Len(listing.streams) :
            IsReady(k) =>
                IF listing.streams[k].candidate <= Len(discovery.streams)
                THEN /\ discovery.lookedUp
                     /\ getStreamInfoHash(CandidateOf(k)) \in discovery.cachedHashes
                ELSE /\ listing.lookedUp
                     /\ getStreamInfoHash(CandidateOf(k)) \in listing.cachedHashes

\* A request without any credential whose lookup found no live entry and
\* that lists streams with a hash.
LookupWithoutCredential ==
    /\ ListedCandidates(listing)
    /\ WithoutCredentialAndEntries
    /\ listing.lookedUp
    /\ \E k \in 1..Len(listing.streams) : getStreamInfoHash(CandidateOf(k)) # EmptyString

\* A request without any credential that lists a ready stream from a live
\* entry of the cache.
ReadyFromLiveEntry ==
    /\ ListedCandidates(listing)
    /\ listing.extraToken = ""
    /\ listing.envToken = ""
    /\ \E k \in 1..Len(listing.streams) : IsReady(k)

====
